---- MODULE Spec2Model ----
(***************************************************************************)
(* SurfaceBridge of scripts/tools/linux_subsystem/surface_bridge.py: the   *)
(* line-based decoder that keeps the surface/window registry, the z-order  *)
(* list and the focus, and that assembles frames into artifacts.           *)
(*                                                                         *)
(* The bridge object is a record `self`; every method is an operator from  *)
(* the bridge (and its arguments) to the bridge after the call, composed   *)
(* in the order the Python statements run.  The variables hold the fields  *)
(* of the one bridge of a run.                                             *)
(*                                                                         *)
(* Text: a protocol line is its tag (the one *_RE that matches it) and the *)
(* whitespace-separated tokens of its tail; a token "k=v" is <<k, v>>, a   *)
(* token without "=" is <<t>>.  A line that matches no *_RE is its text.   *)
(* An optional value (Python's None or a value) is <<>> or <<v>>.          *)
(* sha256 is taken to be collision-free: Sha256 is injective.              *)
(* A call that ends by raising (the ValueError of int() on a text that is  *)
(* no integer literal) is the bridge as the statements before the raise    *)
(* left it, with `raised` set; the statements after the raise do not run.  *)
(*                                                                         *)
(* run_guest of scripts/tools/linux_subsystem/run_linux_guest.py is the    *)
(* record `run`: the values it reads from the environment, its readiness   *)
(* flags, what it wrote to the child's stdin, the child, and how it ended. *)
(* One pass of its `while True:` is one step; `chunk` is what the pass     *)
(* read and `ready_before` is observed_ready as the pass found it.         *)
(*                                                                         *)
(* `host` is what the program meets outside itself: the child's pipe and   *)
(* exit code, the log file, the clock, whether the output directory can be *)
(* written, and registry.json as another process reads it.  The run        *)
(* specification follows the flags and the writes to the child's stdin and *)
(* leaves the host alone; the guest specification follows the host too,    *)
(* with the call of readline() and its return as two steps.                *)
(*                                                                         *)
(* shutdown() of run_guest is followed statement by statement in the       *)
(* shutdown specification, where `run` is its position, the polls of its   *)
(* loop and the signals delivered.  extract() of extract_multi_surfaces.py *)
(* is an operator over the lines of a log; the extract specification       *)
(* keeps in host.log the lines that were fed to the bridge.                *)
(***************************************************************************)
EXTENDS Integers, Sequences, FiniteSets, TLC

VARIABLES
    surfaces,           \* self._surfaces: surface id -> SurfaceInfo
    z_order,            \* self._z_order: list of window ids, tail = front-most
    focused_window_id,  \* self._focused_window_id
    current_key,        \* self._current_key: the open frame's FrameKey
    current_lines,      \* self._current_lines: the open frame's content
    frames_dir,         \* out_dir/frames: file name -> text
    registry_json,      \* out_dir/registry.json: the last snapshot written
    raised,             \* the last call on the bridge ended by raising
    run,                \* run_guest: configuration, locals, outcome
    host,               \* the child's pipe and exit, the log, the clock, the disk
    last,               \* the call that produced this state
    before,             \* the frame that was open when that call was made
    quiet,              \* a second bridge, fed the tag lines only
    noise_in_frame      \* some unmatched line arrived while a frame was open

vars == <<surfaces, z_order, focused_window_id, current_key, current_lines,
          frames_dir, registry_json, raised, run, host, last, before, quiet,
          noise_in_frame>>

\* The bridge and the history kept of it
bridge_state ==
    <<surfaces, z_order, focused_window_id, current_key, current_lines,
      frames_dir, registry_json, raised, last, before, quiet, noise_in_frame>>

-----------------------------------------------------------------------------
(* Bounds of the model *)

\* Content lines one frame accumulates in the registry specification.
MaxLines == 1

\* Content lines one frame accumulates in the frame specification.
MaxFrameLines == 2

-----------------------------------------------------------------------------
(* Optional values and small helpers *)

None == <<>>

Some(v) == <<v>>

Range(s) == {s[i] : i \in 1..Len(s)}

\* Remove, changed: the element stays in the list.
RemoveNothing(s, x) == s

\* list.remove(x): drops the first occurrence; the ValueError of a missing
\* x is caught by the callers (try/except ValueError: pass).
Remove(s, x) ==
    IF x \notin Range(s) THEN s
    ELSE LET i == CHOOSE k \in 1..Len(s) :
                      s[k] = x /\ \A j \in 1..(k - 1) : s[j] # x
         IN  SubSeq(s, 1, i - 1) \o SubSeq(s, i + 1, Len(s))

\* dict.pop(key, None)
Pop(f, key) == [k \in DOMAIN f \ {key} |-> f[k]]

\* dict[key] = value
Put(f, key, value) == (key :> value) @@ f

-----------------------------------------------------------------------------
(* _parse_kv_tail *)

RECURSIVE ParseKvTailFrom(_, _)
ParseKvTailFrom(toks, out) ==
    IF toks = <<>> THEN out
    ELSE LET part == Head(toks)
         IN  IF Len(part) < 2
             THEN ParseKvTailFrom(Tail(toks), out)
             ELSE ParseKvTailFrom(Tail(toks), Put(out, part[1], part[2]))

\* ParseKvTail, changed: the first token without "=" ends the parsing
\* (`break` for `continue`).
ParseKvTailUntilBare(toks) ==
    LET bare == {i \in 1..Len(toks) : Len(toks[i]) < 2}
        stop == IF bare = {} THEN Len(toks) + 1
                ELSE CHOOSE i \in bare : \A j \in bare : i <= j
    IN  ParseKvTailFrom(SubSeq(toks, 1, stop - 1), <<>>)

ParseKvTail(toks) == ParseKvTailFrom(toks, <<>>)

\* kv.get(k)
Get(kv, k) == IF k \in DOMAIN kv THEN Some(kv[k]) ELSE None

\* `not sid`: None or the empty string
Falsy(opt) == opt = None \/ opt = Some("")

\* int(text) for the integer literals the model's lines carry
IntLiterals ==
    ("0" :> 0) @@ ("1" :> 1) @@ ("2" :> 2) @@ ("3" :> 3) @@ ("50" :> 50)
    @@ ("100" :> 100)

ParseInt(text) == IntLiterals[text]

\* int(text) returns for these texts and raises ValueError for every other
IsInt(text) == text \in DOMAIN IntLiterals

\* The call ends here by raising.
Raise(self) == [self EXCEPT !.raised = TRUE]

\* A call starts with nothing raised.
Called(self) == [self EXCEPT !.raised = FALSE]

\* str(n) of an f-string
RECURSIVE Str(_)
Str(n) ==
    LET d == <<"0", "1", "2", "3", "4", "5", "6", "7", "8", "9">>
    IN  IF n < 0 THEN "-" \o Str(0 - n)
        ELSE IF n < 10 THEN d[n + 1]
        ELSE Str(n \div 10) \o d[(n % 10) + 1]

-----------------------------------------------------------------------------
(* SurfaceInfo, FrameKey and the derived names *)

\* f"win-{sid}"
WindowId(sid) == "win-" \o sid

\* SurfaceInfo(surface_id=sid, window_id=f"win-{sid}")
SurfaceInfo(sid) ==
    [surface_id |-> sid, role |-> None, title |-> None, format |-> None,
     w |-> None, h |-> None, window_id |-> Some(WindowId(sid)),
     parent_surface_id |-> None, states |-> None, x |-> None, y |-> None,
     latest_seq |-> None, latest_sha256 |-> None, latest_path |-> None]

FrameKey(sid, seq) == [surface_id |-> sid, seq |-> seq]

\* f"surface-{key.surface_id}-seq-{key.seq}.ppm"
FrameFile(key) == "surface-" \o key.surface_id \o "-seq-" \o Str(key.seq) \o ".ppm"

\* str(out_path.relative_to(self._out_dir))
RelPath(file) == "frames/" \o file

\* "\n".join(lines) + "\n"
RECURSIVE Join(_)
Join(lines) ==
    IF lines = <<>> THEN ""
    ELSE IF Len(lines) = 1 THEN lines[1]
    ELSE lines[1] \o "\n" \o Join(Tail(lines))

\* PpmText, changed: no trailing newline.
PpmTextBare(lines) == Join(lines)

PpmText(lines) == Join(lines) \o "\n"

\* hashlib.sha256(text.encode("utf-8")).hexdigest()
Sha256(text) == <<"sha256", text>>

-----------------------------------------------------------------------------
(* SurfaceBridge: the registry snapshot *)

\* ParentWindowId, changed: the parent's window is named whether or not
\* the parent surface is live.
ParentWindowIdDangling(self, info) ==
    IF info.parent_surface_id # None
    THEN Some(WindowId(info.parent_surface_id[1]))
    ELSE None

\* self._surfaces[info.parent_surface_id].window_id
\*     if info.parent_surface_id in self._surfaces else None
ParentWindowId(self, info) ==
    IF /\ info.parent_surface_id # None
       /\ info.parent_surface_id[1] \in DOMAIN self.surfaces
    THEN self.surfaces[info.parent_surface_id[1]].window_id
    ELSE None

\* The "windows" section: one entry per surface that has a window id, with
\* the parent resolved through the live surfaces and the children computed
\* by inversion (the children list is taken as a set).
WindowMap(self) ==
    LET live == DOMAIN self.surfaces
        windowed == {s \in live : self.surfaces[s].window_id # None}
        parentOf(s) == self.surfaces[s].parent_surface_id
        childrenOf(p) ==
            {self.surfaces[s].window_id[1] : s \in
                {c \in windowed : /\ parentOf(c) # None
                                  /\ parentOf(c) # Some("")
                                  /\ parentOf(c) = Some(p)}}
        entry(s) ==
            LET info == self.surfaces[s]
            IN  [window_id |-> info.window_id[1],
                 surface_id |-> info.surface_id,
                 title |-> info.title, role |-> info.role,
                 x |-> info.x, y |-> info.y, w |-> info.w, h |-> info.h,
                 parent_window_id |-> ParentWindowId(self, info),
                 states |-> info.states,
                 children |-> IF info.window_id # None /\ s \in windowed
                              THEN childrenOf(s) ELSE {}]
    IN  [wid \in {self.surfaces[s].window_id[1] : s \in windowed} |->
            entry(CHOOSE s \in windowed : self.surfaces[s].window_id[1] = wid)]

\* The document _write_registry renders.
Snapshot(self) ==
    [surfaces |-> self.surfaces,
     windows |-> WindowMap(self),
     focused_window_id |-> self.focused_window_id,
     z_order |-> self.z_order]

\* sorted(self._surfaces.items(), key=lambda kv: int(kv[0])) comes first
\* and raises on a surface id that is no integer literal; nothing is
\* written then.  mkdir() and write_text() raise OSError when the output
\* directory cannot be written.
_write_registry(self) ==
    IF self.raised THEN self
    ELSE IF \E sid \in DOMAIN self.surfaces : ~IsInt(sid) THEN Raise(self)
    ELSE IF ~self.writable THEN Raise(self)
    ELSE [self EXCEPT !.registry_json = Some(Snapshot(self))]

-----------------------------------------------------------------------------
(* SurfaceBridge: implicit creation, as each handler writes it out *)

\* `if info is None:` insert a fresh SurfaceInfo and append its window to
\* the z-order list unless it is there (CREATE, ROLE, PARENT, STATE).
InsertWithWindow(self, sid) ==
    IF sid \in DOMAIN self.surfaces THEN self
    ELSE [self EXCEPT
            !.surfaces = Put(@, sid, SurfaceInfo(sid)),
            !.z_order = IF WindowId(sid) \in Range(@) THEN @
                        ELSE Append(@, WindowId(sid))]

\* `if info is None:` insert a fresh SurfaceInfo, the z-order list left as
\* it is (CONFIGURE, _flush_current).
InsertOnly(self, sid) ==
    IF sid \in DOMAIN self.surfaces THEN self
    ELSE [self EXCEPT !.surfaces = Put(@, sid, SurfaceInfo(sid))]

-----------------------------------------------------------------------------
(* SurfaceBridge._flush_current *)

\* SetLatest, changed: a frame whose seq is below the recorded latest_seq
\* leaves the latest-frame fields as they are.
SetLatestMonotonic(self, key, sha, out_path) ==
    IF /\ self.surfaces[key.surface_id].latest_seq # None
       /\ self.surfaces[key.surface_id].latest_seq[1] > key.seq
    THEN self
    ELSE [self EXCEPT
            !.surfaces[key.surface_id].latest_seq = Some(key.seq),
            !.surfaces[key.surface_id].latest_sha256 = Some(sha),
            !.surfaces[key.surface_id].latest_path = Some(RelPath(out_path))]

\* info.latest_seq = key.seq; info.latest_sha256 = sha;
\* info.latest_path = str(out_path.relative_to(self._out_dir))
SetLatest(self, key, sha, out_path) ==
    [self EXCEPT
        !.surfaces[key.surface_id].latest_seq = Some(key.seq),
        !.surfaces[key.surface_id].latest_sha256 = Some(sha),
        !.surfaces[key.surface_id].latest_path = Some(RelPath(out_path))]

_flush_current(self, allow_partial) ==
    IF self.raised \/ self.current_key = None THEN self
    ELSE LET key == self.current_key[1]
             lines == self.current_lines
             cleared == [self EXCEPT !.current_key = None,
                                     !.current_lines = <<>>]
         IN  IF lines = <<>> /\ ~allow_partial THEN cleared
             ELSE IF ~self.writable THEN Raise(cleared)
             ELSE LET ppm_text == PpmText(lines)
                      sha == Sha256(ppm_text)
                      out_path == FrameFile(key)
                      written == [cleared EXCEPT
                                    !.frames_dir = Put(@, out_path, ppm_text)]
                      withInfo == InsertOnly(written, key.surface_id)
                  IN  _write_registry(SetLatest(withInfo, key, sha, out_path))

\* close, changed: the open frame is flushed under the non-partial policy.
close_non_partial(self) ==
    _write_registry(_flush_current(Called(self), FALSE))

\* SurfaceBridge.close
close(self) == _write_registry(_flush_current(Called(self), TRUE))

-----------------------------------------------------------------------------
(* SurfaceBridge.on_line: one operator per tag handler *)

\* info.<field> = int(kv[k]) when k is in kv: the statement raises when
\* kv[k] is no integer literal, and is skipped when an earlier one raised.
SetInt(self, id, field, kv, k) ==
    IF self.raised \/ k \notin DOMAIN kv THEN self
    ELSE IF ~IsInt(kv[k]) THEN Raise(self)
    ELSE [self EXCEPT !.surfaces[id][field] = Some(ParseInt(kv[k]))]

\* on_create, changed: a role the line omits leaves the role as it was
\* (`kv.get("role") or info.role`, as the ROLE branch has it).
on_create_keeping_role(self, kv) ==
    LET sid == Get(kv, "id")
    IN  IF Falsy(sid) THEN self
        ELSE LET id == sid[1]
                 s1 == InsertWithWindow(self, id)
                 s2 == [s1 EXCEPT
                          !.surfaces[id].role =
                              IF Falsy(Get(kv, "role")) THEN @
                              ELSE Get(kv, "role"),
                          !.surfaces[id].title = Get(kv, "title"),
                          !.surfaces[id].format = Get(kv, "format")]
                 s3 == SetInt(s2, id, "w", kv, "w")
                 s4 == SetInt(s3, id, "h", kv, "h")
             IN  _write_registry(s4)

on_create(self, kv) ==
    LET sid == Get(kv, "id")
    IN  IF Falsy(sid) THEN self
        ELSE LET id == sid[1]
                 s1 == InsertWithWindow(self, id)
                 s2 == [s1 EXCEPT
                          !.surfaces[id].role = Get(kv, "role"),
                          !.surfaces[id].title = Get(kv, "title"),
                          !.surfaces[id].format = Get(kv, "format")]
                 s3 == SetInt(s2, id, "w", kv, "w")
                 s4 == SetInt(s3, id, "h", kv, "h")
             IN  _write_registry(s4)

on_role(self, kv) ==
    LET sid == Get(kv, "id")
    IN  IF Falsy(sid) THEN self
        ELSE LET id == sid[1]
                 s1 == InsertWithWindow(self, id)
             IN  _write_registry(
                   [s1 EXCEPT
                      !.surfaces[id].role =
                          IF Falsy(Get(kv, "role")) THEN @ ELSE Get(kv, "role")])

on_parent(self, kv) ==
    LET sid == Get(kv, "id")
        parent == Get(kv, "parent")
    IN  IF Falsy(sid) \/ Falsy(parent) THEN self
        ELSE LET s1 == InsertWithWindow(self, sid[1])
                 s2 == InsertWithWindow(s1, parent[1])
             IN  _write_registry(
                   [s2 EXCEPT !.surfaces[sid[1]].parent_surface_id = parent])

\* [s.strip() for s in states_raw.split(",") if s.strip()]: the value of
\* states= is its comma-separated pieces.
SplitStates(kv) ==
    IF "states" \in DOMAIN kv
    THEN SelectSeq(kv["states"], LAMBDA piece : piece # "")
    ELSE <<>>

on_state(self, kv) ==
    LET sid == Get(kv, "id")
    IN  IF Falsy(sid) THEN self
        ELSE LET id == sid[1]
                 s1 == InsertWithWindow(self, id)
             IN  _write_registry(
                   [s1 EXCEPT !.surfaces[id].states = Some(SplitStates(kv))])

\* focused in ("1", "true", "True", "yes", "YES")
IsFocused(kv) ==
    /\ "focused" \in DOMAIN kv
    /\ kv["focused"] \in {"1", "true", "True", "yes", "YES"}

\* on_focus, changed: the focused window is not brought to the front.
on_focus_in_place(self, kv) ==
    LET sid == Get(kv, "id")
    IN  IF Falsy(sid) THEN self
        ELSE LET id == sid[1]
                 s1 == InsertOnly(self, id)
                 win == s1.surfaces[id].window_id[1]
                 s3 == IF win \in Range(s1.z_order) THEN s1
                       ELSE [s1 EXCEPT !.z_order = Append(@, win)]
             IN  _write_registry(
                   IF IsFocused(kv)
                   THEN [s3 EXCEPT !.focused_window_id = Some(win)]
                   ELSE IF s3.focused_window_id = Some(win)
                        THEN [s3 EXCEPT !.focused_window_id = None]
                        ELSE s3)

\* ClearFocus, changed: the focus is cleared whichever window holds it.
ClearFocusOfAny(self, win) == [self EXCEPT !.focused_window_id = None]

\* `if self._focused_window_id == info.window_id:
\*      self._focused_window_id = None`
ClearFocus(self, win) ==
    IF self.focused_window_id = Some(win)
    THEN [self EXCEPT !.focused_window_id = None]
    ELSE self

on_focus(self, kv) ==
    LET sid == Get(kv, "id")
    IN  IF Falsy(sid) THEN self
        ELSE LET id == sid[1]
                 s1 == InsertOnly(self, id)
                 s2 == IF s1.surfaces[id].window_id = None
                       THEN [s1 EXCEPT
                               !.surfaces[id].window_id = Some(WindowId(id))]
                       ELSE s1
                 win == s2.surfaces[id].window_id[1]
                 s3 == IF win \in Range(s2.z_order) THEN s2
                       ELSE [s2 EXCEPT !.z_order = Append(@, win)]
             IN  _write_registry(
                   IF IsFocused(kv)
                   THEN [s3 EXCEPT
                           !.focused_window_id = Some(win),
                           !.z_order = Append(Remove(@, win), win)]
                   ELSE ClearFocus(s3, win))

on_configure(self, kv) ==
    LET sid == Get(kv, "id")
    IN  IF Falsy(sid) THEN self
        ELSE LET id == sid[1]
                 s1 == InsertOnly(self, id)
                 s2 == SetInt(s1, id, "x", kv, "x")
                 s3 == SetInt(s2, id, "y", kv, "y")
                 s4 == SetInt(s3, id, "w", kv, "w")
                 s5 == SetInt(s4, id, "h", kv, "h")
             IN  _write_registry(s5)

\* DropInFlight, changed: the frame in flight is kept.
DropInFlightKept(self, id) == self

\* DropInFlight, changed: the key is cleared and the lines are kept.
DropInFlightKeyOnly(self, id) ==
    IF self.current_key # None /\ self.current_key[1].surface_id = id
    THEN [self EXCEPT !.current_key = None]
    ELSE self

\* DropInFlight, changed: the frame in flight is dropped whichever surface
\* it belongs to.
DropInFlightOfAny(self, id) ==
    [self EXCEPT !.current_key = None, !.current_lines = <<>>]

\* "Drop any in-flight frame for this surface."
DropInFlight(self, id) ==
    IF self.current_key # None /\ self.current_key[1].surface_id = id
    THEN [self EXCEPT !.current_key = None, !.current_lines = <<>>]
    ELSE self

\* RemoveMapping, changed: the focus is left on the removed window.
RemoveMappingFocusKept(self, id) ==
    IF id \notin DOMAIN self.surfaces THEN self
    ELSE LET info == self.surfaces[id]
             popped == [self EXCEPT !.surfaces = Pop(@, id)]
         IN  IF info.window_id = None THEN popped
             ELSE [popped EXCEPT !.z_order = Remove(@, info.window_id[1])]

\* RemoveMapping, changed: the focus is cleared whichever window holds it.
RemoveMappingFocusDropped(self, id) ==
    IF id \notin DOMAIN self.surfaces THEN self
    ELSE LET info == self.surfaces[id]
             popped == [self EXCEPT !.surfaces = Pop(@, id)]
         IN  IF info.window_id = None THEN popped
             ELSE [popped EXCEPT
                     !.focused_window_id = None,
                     !.z_order = Remove(@, info.window_id[1])]

\* "Remove surface/window mapping."
RemoveMapping(self, id) ==
    IF id \notin DOMAIN self.surfaces THEN self
    ELSE LET info == self.surfaces[id]
             popped == [self EXCEPT !.surfaces = Pop(@, id)]
         IN  IF info.window_id = None THEN popped
             ELSE [popped EXCEPT
                     !.focused_window_id =
                         IF @ = info.window_id THEN None ELSE @,
                     !.z_order = Remove(@, info.window_id[1])]

on_destroy(self, kv) ==
    LET sid == Get(kv, "id")
    IN  IF Falsy(sid) THEN self
        ELSE _write_registry(RemoveMapping(DropInFlight(self, sid[1]), sid[1]))

\* int(kv.get("seq", "0"))
SeqOf(kv) == IF "seq" \in DOMAIN kv THEN ParseInt(kv["seq"]) ELSE ParseInt("0")

\* int(kv.get("seq", "0")) raises
SeqRaises(kv) == "seq" \in DOMAIN kv /\ ~IsInt(kv["seq"])

\* on_frame_begin, changed: the interrupted frame is dropped, not flushed.
on_frame_begin_dropping(self, kv) ==
    LET flushed == [self EXCEPT !.current_key = None, !.current_lines = <<>>]
        sid == Get(kv, "id")
    IN  IF Falsy(sid) THEN flushed
        ELSE [flushed EXCEPT
                !.current_key = Some(FrameKey(sid[1], SeqOf(kv))),
                !.current_lines = <<>>]

\* on_frame_begin, changed: a FRAME_BEGIN without id is skipped before the
\* flush.
on_frame_begin_skipping(self, kv) ==
    LET flushed == _flush_current(self, FALSE)
        sid == Get(kv, "id")
    IN  IF Falsy(sid) THEN self
        ELSE IF flushed.raised THEN flushed
        ELSE IF SeqRaises(kv) THEN Raise(flushed)
        ELSE [flushed EXCEPT
                !.current_key = Some(FrameKey(sid[1], SeqOf(kv))),
                !.current_lines = <<>>]

on_frame_begin(self, kv) ==
    LET flushed == _flush_current(self, FALSE)
        sid == Get(kv, "id")
    IN  IF flushed.raised \/ Falsy(sid) THEN flushed
        ELSE IF SeqRaises(kv) THEN Raise(flushed)
        ELSE [flushed EXCEPT
                !.current_key = Some(FrameKey(sid[1], SeqOf(kv))),
                !.current_lines = <<>>]

\* EndMatches, changed: the sequence number is not compared.
EndMatchesAnySeq(self, kv) ==
    LET sid == Get(kv, "id")
    IN  /\ self.current_key # None
        /\ self.current_key[1].surface_id =
               (IF Falsy(sid) THEN self.current_key[1].surface_id ELSE sid[1])

\* EndMatches, changed: a FRAME_END without id matches no frame.
EndMatchesNamedOnly(self, kv) ==
    LET sid == Get(kv, "id")
    IN  /\ self.current_key # None
        /\ ~Falsy(sid)
        /\ self.current_key[1].surface_id = sid[1]
        /\ self.current_key[1].seq = SeqOf(kv)

\* The three early returns of the FRAME_END branch.
EndMatches(self, kv) ==
    LET sid == Get(kv, "id")
    IN  /\ self.current_key # None
        /\ self.current_key[1].surface_id =
               (IF Falsy(sid) THEN self.current_key[1].surface_id ELSE sid[1])
        /\ self.current_key[1].seq = SeqOf(kv)

on_frame_end(self, kv) ==
    IF SeqRaises(kv) THEN Raise(self)
    ELSE IF EndMatches(self, kv) THEN _flush_current(self, FALSE)
    ELSE self

\* on_content, changed: the line is kept also when no frame is open.
on_content_unguarded(self, text) ==
    [self EXCEPT !.current_lines = Append(@, text)]

\* The fall-through of on_line: a line no *_RE matches.
on_content(self, text) ==
    IF self.current_key # None
    THEN [self EXCEPT !.current_lines = Append(@, text)]
    ELSE self

on_line(self, line) ==
    LET kv == ParseKvTail(line.toks)
    IN  CASE line.tag = "CREATE" -> on_create(Called(self), kv)
          [] line.tag = "ROLE" -> on_role(Called(self), kv)
          [] line.tag = "PARENT" -> on_parent(Called(self), kv)
          [] line.tag = "STATE" -> on_state(Called(self), kv)
          [] line.tag = "FOCUS" -> on_focus(Called(self), kv)
          [] line.tag = "CONFIGURE" -> on_configure(Called(self), kv)
          [] line.tag = "DESTROY" -> on_destroy(Called(self), kv)
          [] line.tag = "FRAME_BEGIN" -> on_frame_begin(Called(self), kv)
          [] line.tag = "FRAME_END" -> on_frame_end(Called(self), kv)
          [] OTHER -> on_content(Called(self), line.text)

-----------------------------------------------------------------------------
(* The lines fed to the bridge *)

Tok(k, v) == <<k, v>>

TagLine(tag, toks) == [tag |-> tag, toks |-> toks, text |-> ""]

NoiseLine(text) == [tag |-> "NOISE", toks |-> <<>>, text |-> text]

\* Not lines: the construction and close(), as values of `last`.
Constructed == [tag |-> "INIT", toks |-> <<>>, text |-> ""]

Closed == [tag |-> "CLOSE", toks |-> <<>>, text |-> ""]

SurfaceIds == {"1", "2"}

\* The registry specification: every tag over two surface ids, frames of
\* both with sequence number 0, one kind of content line.
Lines ==
    {TagLine("CREATE", <<Tok("id", i)>>) : i \in SurfaceIds}
    \cup {TagLine("ROLE", <<Tok("id", "1")>>)}
    \cup {TagLine("PARENT", <<Tok("id", "1"), Tok("parent", "2")>>)}
    \cup {TagLine("STATE", <<Tok("id", "2")>>)}
    \cup {TagLine("FOCUS", <<Tok("id", i), Tok("focused", f)>>) :
            i \in SurfaceIds, f \in {"true", "0"}}
    \cup {TagLine("CONFIGURE", <<Tok("id", i)>>) : i \in SurfaceIds}
    \cup {TagLine("DESTROY", <<Tok("id", i)>>) : i \in SurfaceIds}
    \cup {TagLine("DESTROY", <<>>)}
    \cup {TagLine("FRAME_BEGIN", <<Tok("id", i), Tok("seq", "0")>>) :
            i \in SurfaceIds}
    \cup {TagLine("FRAME_END", <<Tok("id", i), Tok("seq", "0")>>) :
            i \in SurfaceIds}
    \cup {NoiseLine("P3")}

WindowIds == {"1", "2", "3"}

\* The window specification: the registry tags over three surface ids.
WindowLines ==
    {TagLine("CREATE", <<Tok("id", i)>>) : i \in WindowIds}
    \cup {TagLine("CREATE", <<Tok("id", "1"), Tok("role", "toplevel"),
                              Tok("w", "100"), Tok("h", "50")>>)}
    \cup {TagLine("ROLE", <<Tok("id", "2"), Tok("role", "popup")>>)}
    \cup {TagLine("PARENT", <<Tok("id", "2"), Tok("parent", "1")>>)}
    \cup {TagLine("STATE", <<Tok("id", "3"),
                             Tok("states", <<"maximized", "active">>)>>)}
    \cup {TagLine("FOCUS", <<Tok("id", i), Tok("focused", "true")>>) :
            i \in WindowIds}
    \cup {TagLine("FOCUS", <<Tok("id", i), Tok("focused", "false")>>) :
            i \in WindowIds}
    \cup {TagLine("CONFIGURE", <<Tok("id", "3"), Tok("x", "1"), Tok("y", "2")>>)}
    \cup {TagLine("DESTROY", <<Tok("id", i)>>) : i \in WindowIds}

SeqTexts == {"0", "1"}

\* The frame specification: frames of surface 1 with two sequence numbers,
\* two kinds of content line (one of them blank), surface 1 created as in
\* the round-trip scenario and destroyed, a FRAME_END of another surface
\* and one that names no surface.
FrameLines ==
    {TagLine("CREATE", <<Tok("id", "1"), Tok("role", "toplevel"),
                         Tok("w", "100"), Tok("h", "50")>>)}
    \cup {TagLine("DESTROY", <<Tok("id", "1")>>)}
    \cup {TagLine("FRAME_BEGIN", <<Tok("id", "1"), Tok("seq", n)>>) :
            n \in SeqTexts}
    \cup {TagLine("FRAME_END", <<Tok("id", "1"), Tok("seq", n)>>) :
            n \in SeqTexts}
    \cup {TagLine("FRAME_END", <<Tok("id", "2"), Tok("seq", "0")>>)}
    \cup {TagLine("FRAME_END", <<Tok("seq", "0")>>)}
    \cup {NoiseLine("P3"), NoiseLine("")}

\* The noise specification: a surface that is created, focused and
\* destroyed, frames of it and of a surface never created, boot noise.
NoiseLines ==
    {TagLine("CREATE", <<Tok("id", "1")>>),
     TagLine("FOCUS", <<Tok("id", "1"), Tok("focused", "true")>>),
     TagLine("DESTROY", <<Tok("id", "1")>>),
     TagLine("FRAME_BEGIN", <<Tok("id", "1"), Tok("seq", "0")>>),
     TagLine("FRAME_END", <<Tok("id", "1"), Tok("seq", "0")>>),
     TagLine("FRAME_BEGIN", <<Tok("id", "2"), Tok("seq", "0")>>),
     TagLine("FRAME_END", <<Tok("id", "2"), Tok("seq", "0")>>),
     TagLine("CREATE", <<Tok("id", "2")>>),
     NoiseLine("booting...")}

\* The error specification: tag lines with protocol errors next to well
\* formed ones: a width, a position and sequence numbers that are no
\* integer literals, a surface id that is none, an unknown key, a token
\* without "=", a line without id, a FRAME_END of another sequence number.
ErrorLines ==
    {TagLine("CREATE", <<Tok("id", "1"), Tok("w", "100"), Tok("h", "50")>>),
     TagLine("CREATE", <<Tok("id", "1"), Tok("w", "abc"), Tok("h", "50")>>),
     TagLine("CREATE", <<Tok("id", "x")>>),
     TagLine("CREATE", <<Tok("id", "2"), Tok("foo", "bar"), <<"junk">>>>),
     TagLine("CREATE", <<Tok("w", "100")>>),
     TagLine("CONFIGURE", <<Tok("id", "1"), Tok("x", "1"), Tok("y", "abc")>>),
     TagLine("DESTROY", <<Tok("id", "x")>>),
     TagLine("FRAME_BEGIN", <<Tok("id", "1"), Tok("seq", "0")>>),
     TagLine("FRAME_BEGIN", <<Tok("id", "1"), Tok("seq", "zz")>>),
     TagLine("FRAME_END", <<Tok("id", "1"), Tok("seq", "0")>>),
     TagLine("FRAME_END", <<Tok("id", "1"), Tok("seq", "1")>>),
     TagLine("FRAME_END", <<Tok("id", "1"), Tok("seq", "zz")>>),
     NoiseLine("P3")}

\* The token specification: every tag with tokens without "=" and keys its
\* handler does not read, before, between and after the keys it reads.
TokenLines ==
    {TagLine("CREATE", <<Tok("id", "1"), <<"junk">>, Tok("foo", "bar"),
                         Tok("role", "toplevel"), Tok("x", "1")>>),
     TagLine("CREATE", <<Tok("id", "2")>>),
     TagLine("ROLE", <<<<"junk">>, Tok("id", "1"), Tok("title", "zz"),
                       Tok("role", "popup")>>),
     TagLine("PARENT", <<Tok("id", "2"), Tok("seq", "0"), <<"junk">>,
                         Tok("parent", "1")>>),
     TagLine("STATE", <<Tok("focused", "true"), Tok("id", "2"),
                        Tok("states", <<"active">>), <<"id">>>>),
     TagLine("FOCUS", <<Tok("id", "2"), <<"junk">>, Tok("focused", "true"),
                        Tok("w", "100")>>),
     TagLine("FOCUS", <<Tok("id", "2"), <<"focused">>, Tok("role", "popup")>>),
     TagLine("CONFIGURE", <<Tok("id", "1"), Tok("parent", "2"), <<"junk">>,
                            Tok("x", "1"), Tok("y", "2")>>),
     TagLine("DESTROY", <<<<"junk">>, Tok("focused", "true"), Tok("id", "1")>>),
     TagLine("FRAME_BEGIN", <<Tok("id", "1"), <<"junk">>, Tok("w", "100"),
                              Tok("seq", "0")>>),
     TagLine("FRAME_END", <<Tok("role", "popup"), Tok("id", "1"), <<"junk">>,
                            Tok("seq", "0")>>),
     NoiseLine("P3")}

\* The omission specification: FRAME_BEGIN and FRAME_END with and without
\* id and seq, frames of surface 1 with sequence numbers 0 and 1, a
\* FRAME_END of another surface.
OmitLines ==
    {TagLine("FRAME_BEGIN", <<Tok("id", "1"), Tok("seq", "1")>>),
     TagLine("FRAME_BEGIN", <<Tok("id", "1")>>),
     TagLine("FRAME_BEGIN", <<Tok("seq", "1")>>),
     TagLine("FRAME_BEGIN", <<>>),
     TagLine("FRAME_END", <<Tok("id", "1"), Tok("seq", "0")>>),
     TagLine("FRAME_END", <<Tok("id", "1")>>),
     TagLine("FRAME_END", <<Tok("seq", "1")>>),
     TagLine("FRAME_END", <<Tok("seq", "0")>>),
     TagLine("FRAME_END", <<>>),
     TagLine("FRAME_END", <<Tok("id", "2")>>),
     TagLine("CREATE", <<Tok("id", "1")>>),
     NoiseLine("P3"), NoiseLine("")}

\* The re-creation specification: surface 1 is created with and without
\* role, title, format and size, given a role, a parent, state flags, the
\* focus, a position and frames, and created again; surface 2 is its
\* parent and another window.
RecreateLines ==
    {TagLine("CREATE", <<Tok("id", "1")>>),
     TagLine("CREATE", <<Tok("id", "1"), Tok("role", "toplevel"),
                         Tok("title", "term"), Tok("format", "ppm"),
                         Tok("w", "100"), Tok("h", "50")>>),
     TagLine("CREATE", <<Tok("id", "2")>>),
     TagLine("ROLE", <<Tok("id", "1"), Tok("role", "popup")>>),
     TagLine("PARENT", <<Tok("id", "1"), Tok("parent", "2")>>),
     TagLine("STATE", <<Tok("id", "1"), Tok("states", <<"active">>)>>),
     TagLine("FOCUS", <<Tok("id", "1"), Tok("focused", "true")>>),
     TagLine("CONFIGURE", <<Tok("id", "1"), Tok("x", "1"), Tok("y", "2")>>),
     TagLine("DESTROY", <<Tok("id", "1")>>),
     TagLine("FRAME_BEGIN", <<Tok("id", "1"), Tok("seq", "0")>>),
     TagLine("FRAME_END", <<Tok("id", "1"), Tok("seq", "0")>>),
     NoiseLine("P3")}

-----------------------------------------------------------------------------
(* State, initial state and steps *)

Bridge ==
    [surfaces |-> surfaces, z_order |-> z_order,
     focused_window_id |-> focused_window_id,
     current_key |-> current_key, current_lines |-> current_lines,
     frames_dir |-> frames_dir, registry_json |-> registry_json,
     raised |-> raised, writable |-> host.writable]

\* SurfaceBridge.__init__ with the output directory writable: an empty
\* frames directory, no registry.json yet.
NewBridge ==
    [surfaces |-> <<>>, z_order |-> <<>>, focused_window_id |-> None,
     current_key |-> None, current_lines |-> <<>>,
     frames_dir |-> <<>>, registry_json |-> None, raised |-> FALSE,
     writable |-> TRUE]

\* The frame in progress: its key, the content lines it holds, and the
\* latest_seq its surface records.
OpenFrame(self) ==
    [key |-> self.current_key, lines |-> self.current_lines,
     latest |-> IF /\ self.current_key # None
                   /\ self.current_key[1].surface_id \in DOMAIN self.surfaces
                THEN self.surfaces[self.current_key[1].surface_id].latest_seq
                ELSE None]

Install(self) ==
    /\ surfaces' = self.surfaces
    /\ z_order' = self.z_order
    /\ focused_window_id' = self.focused_window_id
    /\ current_key' = self.current_key
    /\ current_lines' = self.current_lines
    /\ frames_dir' = self.frames_dir
    /\ registry_json' = self.registry_json
    /\ raised' = self.raised

\* No run_guest: the bridge is driven by its caller directly.
NoRun == [pc |-> "none"]

\* What run_guest and the bridge meet outside the program: the lines the
\* child has written to its output and that no readline() has returned yet,
\* the child's exit code once it has exited, the lines in the log file,
\* whether time.time() - start has passed timeout_secs, and whether the
\* bridge's output directory can be written; and of registry.json, the
\* document a write_text() that has opened the file has still to write,
\* and what the last read by another process found.  This is the host as
\* the child is spawned.
AtSpawn ==
    [stdout |-> <<>>, returncode |-> None, log |-> <<>>, late |-> FALSE,
     writable |-> TRUE, unwritten |-> None, observed |-> None]

BridgeInit ==
    /\ surfaces = NewBridge.surfaces
    /\ z_order = NewBridge.z_order
    /\ focused_window_id = NewBridge.focused_window_id
    /\ current_key = NewBridge.current_key
    /\ current_lines = NewBridge.current_lines
    /\ frames_dir = NewBridge.frames_dir
    /\ registry_json = NewBridge.registry_json
    /\ raised = NewBridge.raised
    /\ last = Constructed
    /\ before = OpenFrame(NewBridge)
    /\ quiet = NewBridge
    /\ noise_in_frame = FALSE

Init == BridgeInit /\ run = NoRun /\ host = AtSpawn

\* The second bridge: with `twin` it is fed every tag line and close(), and
\* no unmatched line; without, it is left as constructed.
FeedQuiet(line, twin) ==
    IF twin
    THEN /\ quiet' = IF line.tag = "NOISE" THEN quiet
                     ELSE IF line.tag = "CLOSE" THEN close(quiet)
                     ELSE on_line(quiet, line)
         /\ noise_in_frame' =
                (noise_in_frame \/ (line.tag = "NOISE" /\ current_key # None))
    ELSE UNCHANGED <<quiet, noise_in_frame>>

\* bridge.on_line(line) on the run's bridge
Feed(line, twin) ==
    /\ Install(on_line(Bridge, line))
    /\ last' = line
    /\ before' = OpenFrame(Bridge)
    /\ FeedQuiet(line, twin)
    /\ UNCHANGED <<run, host>>

Create(L, twin) == \E line \in L : line.tag = "CREATE" /\ Feed(line, twin)

Role(L, twin) == \E line \in L : line.tag = "ROLE" /\ Feed(line, twin)

Parent(L, twin) == \E line \in L : line.tag = "PARENT" /\ Feed(line, twin)

State(L, twin) == \E line \in L : line.tag = "STATE" /\ Feed(line, twin)

Focus(L, twin) == \E line \in L : line.tag = "FOCUS" /\ Feed(line, twin)

Configure(L, twin) == \E line \in L : line.tag = "CONFIGURE" /\ Feed(line, twin)

Destroy(L, twin) == \E line \in L : line.tag = "DESTROY" /\ Feed(line, twin)

FrameBegin(L, twin) == \E line \in L : line.tag = "FRAME_BEGIN" /\ Feed(line, twin)

FrameEnd(L, twin) == \E line \in L : line.tag = "FRAME_END" /\ Feed(line, twin)

\* An unmatched line; a frame of the model holds at most `cap` lines.
Content(L, cap, twin) ==
    \E line \in L :
        /\ line.tag = "NOISE"
        /\ Len(current_lines) < cap
        /\ Feed(line, twin)

\* bridge.close()
Close(twin) ==
    /\ Install(close(Bridge))
    /\ last' = Closed
    /\ before' = OpenFrame(Bridge)
    /\ FeedQuiet(Closed, twin)
    /\ UNCHANGED <<run, host>>

\* The registry specification
Next ==
    \/ Create(Lines, FALSE)
    \/ Role(Lines, FALSE)
    \/ Parent(Lines, FALSE)
    \/ State(Lines, FALSE)
    \/ Focus(Lines, FALSE)
    \/ Configure(Lines, FALSE)
    \/ Destroy(Lines, FALSE)
    \/ FrameBegin(Lines, FALSE)
    \/ FrameEnd(Lines, FALSE)
    \/ Content(Lines, MaxLines, FALSE)
    \/ Close(FALSE)

Spec == Init /\ [][Next]_vars

\* The window specification: three surfaces, no frames
WindowNext ==
    \/ Create(WindowLines, FALSE)
    \/ Role(WindowLines, FALSE)
    \/ Parent(WindowLines, FALSE)
    \/ State(WindowLines, FALSE)
    \/ Focus(WindowLines, FALSE)
    \/ Configure(WindowLines, FALSE)
    \/ Destroy(WindowLines, FALSE)
    \/ Close(FALSE)

WindowSpec == Init /\ [][WindowNext]_vars

\* The frame specification
FrameNext ==
    \/ Create(FrameLines, FALSE)
    \/ Destroy(FrameLines, FALSE)
    \/ FrameBegin(FrameLines, FALSE)
    \/ FrameEnd(FrameLines, FALSE)
    \/ Content(FrameLines, MaxFrameLines, FALSE)
    \/ Close(FALSE)

FrameSpec == Init /\ [][FrameNext]_vars

\* The noise specification: the run's bridge is fed every line, the second
\* bridge the tag lines alone.
NoiseNext ==
    \/ Create(NoiseLines, TRUE)
    \/ Focus(NoiseLines, TRUE)
    \/ Destroy(NoiseLines, TRUE)
    \/ FrameBegin(NoiseLines, TRUE)
    \/ FrameEnd(NoiseLines, TRUE)
    \/ Content(NoiseLines, MaxLines, TRUE)
    \/ Close(TRUE)

NoiseSpec == Init /\ [][NoiseNext]_vars

\* The error specification: a caller that goes on calling after a raise
ErrorNext ==
    \/ Create(ErrorLines, FALSE)
    \/ Configure(ErrorLines, FALSE)
    \/ Destroy(ErrorLines, FALSE)
    \/ FrameBegin(ErrorLines, FALSE)
    \/ FrameEnd(ErrorLines, FALSE)
    \/ Content(ErrorLines, MaxLines, FALSE)
    \/ Close(FALSE)

ErrorSpec == Init /\ [][ErrorNext]_vars

\* The token specification
TokenNext ==
    \/ Create(TokenLines, FALSE)
    \/ Role(TokenLines, FALSE)
    \/ Parent(TokenLines, FALSE)
    \/ State(TokenLines, FALSE)
    \/ Focus(TokenLines, FALSE)
    \/ Configure(TokenLines, FALSE)
    \/ Destroy(TokenLines, FALSE)
    \/ FrameBegin(TokenLines, FALSE)
    \/ FrameEnd(TokenLines, FALSE)
    \/ Content(TokenLines, MaxLines, FALSE)
    \/ Close(FALSE)

TokenSpec == Init /\ [][TokenNext]_vars

\* The omission specification
OmitNext ==
    \/ Create(OmitLines, FALSE)
    \/ FrameBegin(OmitLines, FALSE)
    \/ FrameEnd(OmitLines, FALSE)
    \/ Content(OmitLines, MaxFrameLines, FALSE)
    \/ Close(FALSE)

OmitSpec == Init /\ [][OmitNext]_vars

\* The re-creation specification
RecreateNext ==
    \/ Create(RecreateLines, FALSE)
    \/ Role(RecreateLines, FALSE)
    \/ Parent(RecreateLines, FALSE)
    \/ State(RecreateLines, FALSE)
    \/ Focus(RecreateLines, FALSE)
    \/ Configure(RecreateLines, FALSE)
    \/ Destroy(RecreateLines, FALSE)
    \/ FrameBegin(RecreateLines, FALSE)
    \/ FrameEnd(RecreateLines, FALSE)
    \/ Content(RecreateLines, MaxLines, FALSE)
    \/ Close(FALSE)

RecreateSpec == Init /\ [][RecreateNext]_vars

-----------------------------------------------------------------------------
(* registry.json as another process reads it *)

\* Path.write_text opens the file for writing, which empties it, writes
\* the text and closes the file: between the open and the end of the
\* write the file holds a proper prefix of the document, the empty one
\* included.
InRewrite == <<"registry.json", "incomplete">>

\* Lines whose handlers end in _write_registry
ObserverLines ==
    {TagLine("CREATE", <<Tok("id", "1")>>),
     TagLine("CREATE", <<Tok("id", "2"), Tok("title", "term")>>),
     TagLine("FOCUS", <<Tok("id", "1"), Tok("focused", "true")>>),
     TagLine("FOCUS", <<Tok("id", "2"), Tok("focused", "true")>>),
     TagLine("DESTROY", <<Tok("id", "1")>>),
     TagLine("DESTROY", <<Tok("id", "2")>>)}

\* on_line(line) up to the open() of its write_text: the registry in
\* memory is as the handler leaves it, the file is empty.
WriteOpens ==
    \E line \in ObserverLines :
        LET after == on_line(Bridge, line)
        IN  /\ host.unwritten = None
            /\ Install([after EXCEPT !.registry_json = InRewrite])
            /\ host' = [host EXCEPT !.unwritten = after.registry_json]
            /\ last' = line
            /\ before' = OpenFrame(Bridge)
            /\ UNCHANGED <<run, quiet, noise_in_frame>>

\* WriteCloses, changed: the file is closed with the document unwritten.
WriteClosesEmpty ==
    /\ host.unwritten # None
    /\ host' = [host EXCEPT !.unwritten = None]
    /\ UNCHANGED <<bridge_state, run>>

\* The rest of write_text, and the return of on_line.
WriteCloses ==
    /\ host.unwritten # None
    /\ registry_json' = host.unwritten
    /\ host' = [host EXCEPT !.unwritten = None]
    /\ UNCHANGED <<surfaces, z_order, focused_window_id, current_key,
                   current_lines, frames_dir, raised, run, last, before,
                   quiet, noise_in_frame>>

\* Another process reads registry.json: what it finds (None when there is
\* no file), whether a rewrite was under way, and the snapshot of the
\* registry in memory at that moment.
Observe ==
    /\ host' = [host EXCEPT !.observed =
                    Some([doc |-> registry_json,
                          rewriting |-> host.unwritten # None,
                          memory |-> Snapshot(Bridge)])]
    /\ UNCHANGED <<bridge_state, run>>

ObserverNext == WriteOpens \/ WriteCloses \/ Observe

ObserverSpec == Init /\ [][ObserverNext]_vars

-----------------------------------------------------------------------------
(* run_guest: what it reads from the environment *)

MARKER == "RAYOS_LINUX_GUEST_READY"

\* os.environ.get(name) of each variable, None when it is not set.
Environments ==
    [READY_MARKER : {None, Some("RAYOS_READY")},
     INJECT_READY_MARKER : {None, Some("1"), Some("0")},
     POST_READY_SEND : {None, Some("ping\n")},
     POST_READY_EXPECT : {None, Some("pong")},
     SURFACE_BRIDGE_OUT_DIR : {None, Some("out")},
     TIMEOUT_SECS : {0, 45}]

\* os.environ.get(name, default)
EnvGet(v, default) == IF v = None THEN default ELSE v[1]

_bool_env(v, default) ==
    IF v = None THEN default
    ELSE v[1] \notin {"", "0", "false", "False", "no", "NO"}

\* run_guest from its first statement to `try:`, the child spawned.
Started(env) ==
    LET ready_marker == EnvGet(env.READY_MARKER, MARKER)
    IN  [pc |-> "loop",
         ready_marker |-> ready_marker,
         inject_ready_marker |->
             _bool_env(env.INJECT_READY_MARKER, ready_marker = MARKER),
         post_ready_send |-> EnvGet(env.POST_READY_SEND, ""),
         post_ready_expect |-> EnvGet(env.POST_READY_EXPECT, ""),
         has_bridge |-> EnvGet(env.SURFACE_BRIDGE_OUT_DIR, "") # "",
         timeout_secs |-> env.TIMEOUT_SECS,
         saw_shell_hint |-> FALSE,
         injected_ready |-> FALSE,
         observed_ready |-> FALSE,
         sent_post_ready |-> FALSE,
         observed_post_ready |-> FALSE,
         chunk |-> None,
         ready_before |-> FALSE,
         stages |-> <<>>,
         stdin |-> <<>>,
         child |-> None,
         result |-> None,
         at |-> "",
         error |-> None]

-----------------------------------------------------------------------------
(* run_guest: one pass of the loop *)

\* `return rc` at the place `at`
Return(r, rc, at) ==
    [r EXCEPT !.pc = "returned", !.result = Some(rc), !.at = at]

\* An exception leaves the loop.
Fail(r, what) == [r EXCEPT !.pc = "raised", !.error = Some(what)]

\* ObserveReady, changed: a marker line asks for the post-ready command
\* again.
ObserveReadyResending(r, line) ==
    IF line.marker
    THEN [r EXCEPT !.observed_ready = TRUE, !.sent_post_ready = FALSE]
    ELSE r

\* `if ready_marker in line: observed_ready = True`
ObserveReady(r, line) ==
    IF line.marker THEN [r EXCEPT !.observed_ready = TRUE] ELSE r

\* `if chunk:` ... the line is fed to the bridge first (an exception of
\* on_line leaves the loop), then examined for a shell hint, the ready
\* marker and the post-ready expectation.
ObserveLine(r, line, bridge_raised) ==
    IF bridge_raised THEN Fail(r, "bridge")
    ELSE LET r1 == [r EXCEPT !.saw_shell_hint = @ \/ line.hint]
             r2 == ObserveReady(r1, line)
         IN  IF line.marker /\ r.post_ready_send = ""
             THEN Return(r2, 0, "ready")
             ELSE IF r.post_ready_expect # "" /\ line.expect
             THEN Return([r2 EXCEPT !.observed_post_ready = TRUE], 0,
                         "post_ready")
             ELSE r2

\* InjectReady, changed: `not injected_ready` is not asked.
InjectReadyAgain(r, gone) ==
    IF r.pc = "loop" /\ r.inject_ready_marker /\ r.saw_shell_hint
    THEN IF gone THEN Fail(r, "stdin")
         ELSE [r EXCEPT
                 !.stdin = Append(@, "echo " \o r.ready_marker \o "\n"),
                 !.injected_ready = TRUE]
    ELSE r

\* "inject ready marker once": the write raises when the child is gone.
InjectReady(r, gone) ==
    IF /\ r.pc = "loop"
       /\ r.inject_ready_marker /\ r.saw_shell_hint /\ ~r.injected_ready
    THEN IF gone THEN Fail(r, "stdin")
         ELSE [r EXCEPT
                 !.stdin = Append(@, "echo " \o r.ready_marker \o "\n"),
                 !.injected_ready = TRUE]
    ELSE r

\* SendPostReady, changed: `observed_ready` is not asked.
SendPostReadyEarly(r, gone) ==
    IF r.pc = "loop" /\ r.post_ready_send # "" /\ ~r.sent_post_ready
    THEN IF gone THEN Fail(r, "stdin")
         ELSE [r EXCEPT !.stdin = Append(@, r.post_ready_send),
                        !.sent_post_ready = TRUE]
    ELSE r

\* "After readiness, optionally send a control command"
SendPostReady(r, gone) ==
    IF /\ r.pc = "loop"
       /\ r.observed_ready /\ r.post_ready_send # "" /\ ~r.sent_post_ready
    THEN IF gone THEN Fail(r, "stdin")
         ELSE [r EXCEPT !.stdin = Append(@, r.post_ready_send),
                        !.sent_post_ready = TRUE]
    ELSE r

\* ReturnCode, changed: `return proc.returncode`.
ReturnCodeOfChild(code) == code

\* `return proc.returncode or 1`
ReturnCode(code) == IF code = 0 THEN 1 ELSE code

\* `if proc.poll() is not None:`
Poll(r, polled) ==
    IF r.pc = "loop" /\ polled # None
    THEN Return(r, ReturnCode(polled[1]), "child_exit")
    ELSE r

\* shutdown(): a child that has exited is left alone, a running one is
\* terminated.
shutdown(r, polled) ==
    [r EXCEPT !.child = IF polled # None THEN polled ELSE Some("terminated")]

\* One pass: chunk is the line readline() returned, None for b""; `gone`
\* says the child exits before the writes to its stdin, `polled` is what
\* proc.poll() returns at the end of the pass.
Pass(r, chunk, bridge_raised, gone, polled) ==
    LET observed == IF chunk = None THEN r
                    ELSE ObserveLine(r, chunk[1], bridge_raised)
    IN  Poll(SendPostReady(InjectReady(observed, gone), gone), polled)

\* main(): the exit status of the program
main(r) == IF r.pc = "raised" THEN 1 ELSE r.result[1]

-----------------------------------------------------------------------------
(* run_guest: the lines of the child and the steps of a run *)

\* A line of the child's output: whether it contains a shell hint, the
\* ready marker, the post-ready expectation, and what the bridge reads.
RunLine(hint, marker, expect, text) ==
    [hint |-> hint, marker |-> marker, expect |-> expect, bridge |-> text]

\* Unmatched lines, a well-formed CREATE and one with a surface id that is
\* no integer literal.
RunLines ==
    {RunLine(h, m, e, t) :
        h \in BOOLEAN, m \in BOOLEAN, e \in BOOLEAN,
        t \in {NoiseLine("P3"),
               TagLine("CREATE", <<Tok("id", "1")>>),
               TagLine("CREATE", <<Tok("id", "x")>>)}}

\* The exit codes of the child
ExitCodes == {0, 1, 3}

RunInit ==
    /\ BridgeInit
    /\ run \in {Started(env) : env \in Environments}
    /\ host = AtSpawn

\* What the pass does with the line it read, in the order of the
\* statements: log_fp.write(chunk), bridge.on_line(...) when there is a
\* bridge, then the tests for a shell hint, the ready marker and the
\* post-ready expectation, which an exception of on_line skips.
Stages(r, chunk, bridge_raised) ==
    IF chunk = None THEN <<>>
    ELSE <<"log_fp.write">>
         \o (IF r.has_bridge THEN <<"bridge.on_line">> ELSE <<>>)
         \o (IF bridge_raised THEN <<>> ELSE <<"readiness">>)

\* The bridge after the pass fed it the line.
Fed(r, chunk) ==
    IF r.has_bridge /\ chunk # None
    THEN on_line(Bridge, chunk[1].bridge) ELSE Bridge

\* run_guest after the pass, and after its `finally:` when the pass leaves
\* the loop.
RunAfter(r, chunk, gone, polled) ==
    LET bridge_raised == Fed(r, chunk).raised
        passed == Pass(r, chunk, bridge_raised, gone, polled)
    IN  [(IF passed.pc # "loop" THEN shutdown(passed, polled) ELSE passed)
            EXCEPT !.chunk = chunk,
                   !.ready_before = r.observed_ready,
                   !.stages = Stages(r, chunk, bridge_raised)]

\* The bridge part of a pass, and the `finally:` of run_guest when the pass
\* leaves the loop: bridge.close() with its exceptions swallowed.
BridgeAfter(r, chunk, ended) ==
    LET fed == Fed(r, chunk)
    IN  /\ Install(IF ended /\ r.has_bridge THEN close(fed) ELSE fed)
        /\ last' = IF ended /\ r.has_bridge THEN Closed
                   ELSE IF r.has_bridge /\ chunk # None THEN chunk[1].bridge
                   ELSE last
        /\ before' = IF ended /\ r.has_bridge THEN OpenFrame(fed)
                     ELSE IF r.has_bridge /\ chunk # None
                     THEN OpenFrame(Bridge)
                     ELSE before
        /\ UNCHANGED <<quiet, noise_in_frame>>

\* One pass of the loop as one step.
Step(chunk, gone, polled) ==
    /\ run' = RunAfter(run, chunk, gone, polled)
    /\ BridgeAfter(run, chunk, run'.pc # "loop")
    /\ UNCHANGED host

\* A pass whose readline() returns a line.
ReadLine ==
    \E line \in RunLines, gone \in BOOLEAN,
       polled \in {None} \cup {Some(c) : c \in ExitCodes} :
        /\ run.pc = "loop"
        /\ gone => polled # None
        /\ ~run.has_bridge => line.bridge = NoiseLine("P3")
        /\ Step(Some(line), gone, polled)

\* A pass whose readline() returns b"": the child has closed its output.
ReadEof ==
    \E c \in ExitCodes :
        /\ run.pc = "loop"
        /\ Step(None, TRUE, Some(c))

\* `raise TimeoutError(...)`, the `except` and the `finally:` after it
TimedOut(r, polled) ==
    [shutdown(Fail(r, "timeout"), polled)
        EXCEPT !.chunk = None, !.ready_before = r.observed_ready,
               !.stages = <<>>]

\* `if timeout_secs > 0 and time.time() - start > timeout_secs: raise`
Deadline ==
    /\ run.pc = "loop"
    /\ run.timeout_secs > 0
    /\ run' = TimedOut(run, None)
    /\ BridgeAfter(run, None, TRUE)
    /\ UNCHANGED host

RunNext == ReadLine \/ ReadEof \/ Deadline

RunSpec == RunInit /\ [][RunNext]_vars

-----------------------------------------------------------------------------
(* run_guest with the child, the log, the clock and the output directory *)

\* Lines the child prints, in all.
MaxPrinted == 2

\* The guest specification sets no marker, injection or expectation
\* variable: its lines carry no shell hint and no expectation.
GuestEnvironments ==
    {env \in Environments : /\ env.READY_MARKER = None
                            /\ env.INJECT_READY_MARKER = None
                            /\ env.POST_READY_EXPECT = None}

\* The ready marker alone, an unmatched line, the begin of a frame, a
\* CREATE, and a CREATE whose tail contains the ready marker.
GuestLines ==
    {RunLine(FALSE, TRUE, FALSE, NoiseLine("P3")),
     RunLine(FALSE, FALSE, FALSE, NoiseLine("P3")),
     RunLine(FALSE, FALSE, FALSE,
             TagLine("FRAME_BEGIN", <<Tok("id", "1"), Tok("seq", "0")>>)),
     RunLine(FALSE, FALSE, FALSE, TagLine("CREATE", <<Tok("id", "1")>>)),
     RunLine(FALSE, TRUE, FALSE, TagLine("CREATE", <<Tok("id", "1")>>))}

\* run_guest after subprocess.Popen, before the bridge is constructed.
Spawned(env) == [Started(env) EXCEPT !.pc = "spawned"]

GuestInit ==
    /\ BridgeInit
    /\ run \in {Spawned(env) : env \in GuestEnvironments}
    /\ host = AtSpawn

\* The child runs until it exits or shutdown() has ended it.
ChildRuns == host.returncode = None /\ run.child = None

\* The child writes a line to its output.
ChildPrints ==
    \E line \in GuestLines :
        /\ ChildRuns
        /\ Len(host.log) + Len(host.stdout) < MaxPrinted
        /\ run.has_bridge \/ line.bridge = NoiseLine("P3")
        /\ host' = [host EXCEPT !.stdout = Append(@, line)]
        /\ UNCHANGED <<bridge_state, run>>

\* The child exits; what it wrote stays in the pipe.
ChildExits ==
    \E code \in ExitCodes :
        /\ ChildRuns
        /\ host' = [host EXCEPT !.returncode = Some(code)]
        /\ UNCHANGED <<bridge_state, run>>

\* timeout_secs pass.
Elapse ==
    /\ run.pc \in {"spawned", "loop", "readline"}
    /\ ~host.late
    /\ host' = [host EXCEPT !.late = TRUE]
    /\ UNCHANGED <<bridge_state, run>>

\* The output directory stops being writable (removed, read-only, full).
OutDirFails ==
    /\ run.pc \in {"spawned", "loop", "readline"}
    /\ run.has_bridge
    /\ host.writable
    /\ host' = [host EXCEPT !.writable = FALSE]
    /\ UNCHANGED <<bridge_state, run>>

\* `if bridge_out: bridge = SurfaceBridge(out_dir=Path(bridge_out))`, before
\* `try:`.  The mkdir() of SurfaceBridge.__init__ raises OSError when the
\* directory cannot be made: the exception leaves run_guest, no `except`
\* and no `finally:` around it.
Construct ==
    /\ run.pc = "spawned"
    /\ run' = IF run.has_bridge /\ ~host.writable
              THEN Fail(run, "construct")
              ELSE [run EXCEPT !.pc = "loop"]
    /\ UNCHANGED <<bridge_state, host>>

\* The deadline test passes and readline() is called: it returns when the
\* child has written a line or closed its output, not before.
CallReadline ==
    /\ run.pc = "loop"
    /\ ~(run.timeout_secs > 0 /\ host.late)
    /\ run' = [run EXCEPT !.pc = "readline"]
    /\ UNCHANGED <<bridge_state, host>>

\* The deadline test fails.
RaiseTimeout ==
    /\ run.pc = "loop"
    /\ run.timeout_secs > 0 /\ host.late
    /\ run' = TimedOut(run, host.returncode)
    /\ BridgeAfter(run, None, TRUE)
    /\ UNCHANGED host

\* The rest of a pass, from the return of readline() to the loop's top or
\* out of the loop.  A write to the stdin of a child that has exited
\* raises.
Returned(chunk) ==
    LET r == [run EXCEPT !.pc = "loop"]
        gone == host.returncode # None
        after == RunAfter(r, chunk, gone, host.returncode)
    IN  /\ run' = after
        /\ BridgeAfter(r, chunk, after.pc # "loop")

\* readline() returns the first unread line, which goes to the log.
Readline ==
    /\ run.pc = "readline"
    /\ host.stdout # <<>>
    /\ Returned(Some(Head(host.stdout)))
    /\ host' = [host EXCEPT !.stdout = Tail(@),
                            !.log = Append(@, Head(host.stdout))]

\* readline() returns b"": nothing unread and the child has exited.
ReadlineEof ==
    /\ run.pc = "readline"
    /\ host.stdout = <<>>
    /\ host.returncode # None
    /\ Returned(None)
    /\ UNCHANGED host

GuestNext ==
    \/ ChildPrints
    \/ ChildExits
    \/ Elapse
    \/ OutDirFails
    \/ Construct
    \/ CallReadline
    \/ RaiseTimeout
    \/ Readline
    \/ ReadlineEof

GuestSpec == GuestInit /\ [][GuestNext]_vars

\* The run without a bridge (SURFACE_BRIDGE_OUT_DIR not set), for the claims
\* on how the run ends.
PlainInit ==
    /\ BridgeInit
    /\ run \in {Spawned(env) : env \in
                   {e \in GuestEnvironments : e.SURFACE_BRIDGE_OUT_DIR = None}}
    /\ host = AtSpawn

PlainNext ==
    \/ ChildPrints
    \/ ChildExits
    \/ Elapse
    \/ Construct
    \/ CallReadline
    \/ RaiseTimeout
    \/ Readline
    \/ ReadlineEof

\* The statements of run_guest
GuestRuns ==
    Construct \/ CallReadline \/ RaiseTimeout \/ Readline \/ ReadlineEof

\* run_guest is one thread that takes its next statement whenever it can,
\* and time passes; nothing makes the child print or exit.
PlainLiveSpec ==
    /\ PlainInit
    /\ [][PlainNext]_vars
    /\ WF_vars(GuestRuns)
    /\ WF_vars(Elapse)

-----------------------------------------------------------------------------
(* extract_multi_surfaces.extract over a log, next to a bridge fed the same
   lines *)

\* The local state of extract() before the first line is read.
ExtractStart ==
    [surfaces |-> <<>>, frames |-> <<>>, current |-> None,
     current_lines |-> <<>>, raised |-> FALSE, empty_frame |-> FALSE]

\* extract's FrameKey: id and seq are the strings of the line.
ExtractKey(id, seq) == [id |-> id, seq |-> seq]

\* flush_current(): frames[current] = list(current_lines).  empty_frame
\* records that a frame without content line was stored.
flush_current(e) ==
    IF e.current = None THEN e
    ELSE [e EXCEPT
            !.frames = Put(@, e.current[1], e.current_lines),
            !.empty_frame = @ \/ e.current_lines = <<>>,
            !.current = None,
            !.current_lines = <<>>]

\* The CREATE branch: int(kv["w"]) and int(kv["h"]) are not guarded.
extract_create(e, kv) ==
    LET sid == Get(kv, "id")
    IN  IF Falsy(sid) THEN e
        ELSE IF \E k \in {"w", "h"} : k \in DOMAIN kv /\ ~IsInt(kv[k])
        THEN [e EXCEPT !.raised = TRUE]
        ELSE [e EXCEPT !.surfaces = Put(@, sid[1],
                [id |-> sid[1],
                 role |-> Get(kv, "role"),
                 title |-> Get(kv, "title"),
                 format |-> Get(kv, "format"),
                 w |-> IF "w" \in DOMAIN kv THEN Some(ParseInt(kv["w"]))
                       ELSE None,
                 h |-> IF "h" \in DOMAIN kv THEN Some(ParseInt(kv["h"]))
                       ELSE None])]

\* kv.get("seq", "0"), kept as a string
SeqText(kv) == IF "seq" \in DOMAIN kv THEN kv["seq"] ELSE "0"

\* The FRAME_BEGIN branch: `if sid is None: continue`
extract_frame_begin(e, kv) ==
    LET flushed == flush_current(e)
        sid == Get(kv, "id")
    IN  IF sid = None THEN flushed
        ELSE [flushed EXCEPT
                !.current = Some(ExtractKey(sid[1], SeqText(kv))),
                !.current_lines = <<>>]

\* The FRAME_END branch
extract_frame_end(e, kv) ==
    LET sid == Get(kv, "id")
    IN  IF /\ e.current # None
           /\ e.current[1].id =
                  (IF Falsy(sid) THEN e.current[1].id ELSE sid[1])
           /\ e.current[1].seq = SeqText(kv)
        THEN flush_current(e)
        ELSE e

\* One iteration of `for raw in f:`; a line none of the three patterns
\* matches is a content line.
extract_line(e, line) ==
    LET kv == ParseKvTail(line.toks)
    IN  CASE line.tag = "CREATE" -> extract_create(e, kv)
          [] line.tag = "FRAME_BEGIN" -> extract_frame_begin(e, kv)
          [] line.tag = "FRAME_END" -> extract_frame_end(e, kv)
          [] OTHER -> IF e.current # None
                      THEN [e EXCEPT !.current_lines = Append(@, line.text)]
                      ELSE e

\* The loop over the lines of the log; an exception ends it.
RECURSIVE ExtractLoop(_, _)
ExtractLoop(e, lines) ==
    IF lines = <<>> \/ e.raised THEN e
    ELSE ExtractLoop(extract_line(e, Head(lines)), Tail(lines))

\* f"surface-{key.id}-seq-{key.seq}.ppm"
ExtractFile(key) == "surface-" \o key.id \o "-seq-" \o key.seq \o ".ppm"

\* The frame artifacts extract() leaves in out_dir: none when the loop
\* raised, when no frame was found (RuntimeError) or when the sort by
\* (int(id), int(seq)) raises; else one file per key.
extract(lines) ==
    LET e == flush_current(ExtractLoop(ExtractStart, lines))
        done == IF ExtractLoop(ExtractStart, lines).raised
                THEN ExtractLoop(ExtractStart, lines) ELSE e
    IN  IF \/ done.raised
           \/ done.frames = <<>>
           \/ \E key \in DOMAIN done.frames :
                  ~IsInt(key.id) \/ ~IsInt(key.seq)
        THEN [files |-> <<>>, raised |-> TRUE]
        ELSE [files |->
                [file \in {ExtractFile(key) : key \in DOMAIN done.frames} |->
                    LET key == CHOOSE k \in DOMAIN done.frames :
                                   ExtractFile(k) = file
                    IN  PpmText(done.frames[key])],
              raised |-> FALSE]

\* The longest log of the extract specification
MaxLog == 4

\* The extract specification: CREATE with and without an integer width,
\* frames of two surfaces with and without id and seq, a FRAME_END that
\* matches neither, two kinds of content line.
ExtractLines ==
    {TagLine("CREATE", <<Tok("id", "1"), Tok("w", "100"), Tok("h", "50")>>),
     TagLine("CREATE", <<Tok("id", "1"), Tok("w", "abc"), Tok("h", "50")>>),
     TagLine("FRAME_BEGIN", <<Tok("id", "1"), Tok("seq", "0")>>),
     TagLine("FRAME_BEGIN", <<Tok("id", "2")>>),
     TagLine("FRAME_BEGIN", <<>>),
     TagLine("FRAME_END", <<Tok("id", "1"), Tok("seq", "0")>>),
     TagLine("FRAME_END", <<>>),
     TagLine("FRAME_END", <<Tok("id", "2"), Tok("seq", "1")>>),
     NoiseLine("P3"),
     NoiseLine("")}

\* A line is appended to the log and fed to the bridge, as run_guest does;
\* an exception of on_line ends the feeding.
LogLine ==
    \E line \in ExtractLines :
        /\ last.tag # "CLOSE"
        /\ ~raised
        /\ Len(host.log) < MaxLog
        /\ host' = [host EXCEPT !.log = Append(@, line)]
        /\ Install(on_line(Bridge, line))
        /\ last' = line
        /\ before' = OpenFrame(Bridge)
        /\ UNCHANGED <<run, quiet, noise_in_frame>>

\* bridge.close() ends the run; extract() is run over the log afterwards.
CloseLog ==
    /\ last.tag # "CLOSE"
    /\ Install(close(Bridge))
    /\ last' = Closed
    /\ before' = OpenFrame(Bridge)
    /\ UNCHANGED <<run, host, quiet, noise_in_frame>>

ExtractNext == LogLine \/ CloseLog

ExtractSpec == Init /\ [][ExtractNext]_vars

-----------------------------------------------------------------------------
(* run_guest.shutdown, statement by statement *)

\* `for _ in range(30):`
PollCount == 30

\* shutdown() is called: at its first statement, no poll of the loop made,
\* no signal delivered.
ShutdownCalled == [pc |-> "shutdown.poll", polls |-> 0, sent |-> <<>>]

\* proc.send_signal(sig) / proc.kill() inside try/except: Popen polls the
\* child first and signals it only if it has not exited.
Signal(r, sig, returncode) ==
    IF returncode = None THEN [r EXCEPT !.sent = Append(@, sig)] ELSE r

\* PolledInLoop, changed: the first poll of the loop that finds the child
\* alive goes on to kill().
PolledInLoopImpatient(r, returncode) ==
    LET polled == [r EXCEPT !.polls = @ + 1]
    IN  IF returncode # None THEN [polled EXCEPT !.pc = "shutdown.return"]
        ELSE [polled EXCEPT !.pc = "shutdown.kill"]

\* One pass of the `for`: `if proc.poll() is not None: return`, else
\* time.sleep(0.05); after the last pass the loop is left.
PolledInLoop(r, returncode) ==
    LET polled == [r EXCEPT !.polls = @ + 1]
    IN  IF returncode # None THEN [polled EXCEPT !.pc = "shutdown.return"]
        ELSE IF polled.polls = PollCount
        THEN [polled EXCEPT !.pc = "shutdown.kill"]
        ELSE polled

ShutdownInit ==
    /\ BridgeInit
    /\ run = ShutdownCalled
    /\ host \in {AtSpawn}
                \cup {[AtSpawn EXCEPT !.returncode = Some(code)] :
                        code \in ExitCodes}

\* `if proc.poll() is not None: return`
FirstPoll ==
    /\ run.pc = "shutdown.poll"
    /\ run' = [run EXCEPT !.pc = IF host.returncode # None
                                 THEN "shutdown.return"
                                 ELSE "shutdown.sigterm"]
    /\ UNCHANGED <<bridge_state, host>>

\* `proc.send_signal(signal.SIGTERM)`
SendSigterm ==
    /\ run.pc = "shutdown.sigterm"
    /\ run' = [Signal(run, "SIGTERM", host.returncode)
                  EXCEPT !.pc = "shutdown.for"]
    /\ UNCHANGED <<bridge_state, host>>

PollInLoop ==
    /\ run.pc = "shutdown.for"
    /\ run' = PolledInLoop(run, host.returncode)
    /\ UNCHANGED <<bridge_state, host>>

\* `proc.kill()`, after which shutdown returns without waiting.
Kill ==
    /\ run.pc = "shutdown.kill"
    /\ run' = [Signal(run, "SIGKILL", host.returncode)
                  EXCEPT !.pc = "shutdown.return"]
    /\ UNCHANGED <<bridge_state, host>>

\* The child exits, by itself or for a signal it was sent.
ChildEnds ==
    \E code \in ExitCodes :
        /\ host.returncode = None
        /\ host' = [host EXCEPT !.returncode = Some(code)]
        /\ UNCHANGED <<bridge_state, run>>

\* The statements of shutdown()
ShutdownRuns == FirstPoll \/ SendSigterm \/ PollInLoop \/ Kill

ShutdownNext == FirstPoll \/ SendSigterm \/ PollInLoop \/ Kill \/ ChildEnds

\* shutdown() runs on; nothing makes the child exit.
ShutdownSpec ==
    /\ ShutdownInit
    /\ [][ShutdownNext]_vars
    /\ WF_vars(ShutdownRuns)

-----------------------------------------------------------------------------
(* Reading a state and a step *)

\* kv of the line that was fed last
LastKv == ParseKvTail(last.toks)

\* `last` is a tag line of this tag that names surface id `id`
LastIs(tag, id) == last.tag = tag /\ Get(LastKv, "id") = Some(id)

LiveWindows ==
    {surfaces[s].window_id[1] :
        s \in {t \in DOMAIN surfaces : surfaces[t].window_id # None}}

\* The step just taken fed a tag line of this tag naming surface id `id`
\* (written for use inside [][...]_vars).
FedTo(tag, id) ==
    /\ last'.tag = tag
    /\ Get(ParseKvTail(last'.toks), "id") = Some(id)

bridge_vars ==
    <<surfaces, z_order, focused_window_id, current_key, current_lines,
      frames_dir, registry_json>>

\* Every line followed by a newline, first line first.
RECURSIVE EachLineEnded(_)
EachLineEnded(lines) ==
    IF lines = <<>> THEN ""
    ELSE EachLineEnded(SubSeq(lines, 1, Len(lines) - 1))
            \o lines[Len(lines)] \o "\n"

\* The frames directory after one file was written.
Written(dir, file, text) ==
    [f \in DOMAIN dir \cup {file} |-> IF f = file THEN text ELSE dir[f]]

-----------------------------------------------------------------------------
(* Claims on the registry specification *)

\* C2: in every reachable state the z-order list holds no window id twice
\* and every entry is the window id of a live surface.
C2_ZOrderSound ==
    /\ \A i, j \in 1..Len(z_order) : z_order[i] = z_order[j] => i = j
    /\ Range(z_order) \subseteq LiveWindows

\* C2 witness: two windows in the list, win-1 brought to the front by the
\* FOCUS id=1 that was fed last.
C2_Witness ==
    /\ LastIs("FOCUS", "1")
    /\ z_order = <<"win-2", "win-1">>
    /\ focused_window_id = Some("win-1")

\* C3: the focus is one window id or none; when set it is the window of a
\* live surface and a member of the z-order list; a DESTROY of the focused
\* window's surface and a FOCUS ... focused=<false> on it clear the focus.
C3_FocusState ==
    focused_window_id # None =>
        /\ focused_window_id[1] \in LiveWindows
        /\ focused_window_id[1] \in Range(z_order)

C3_FocusCleared ==
    \A id \in SurfaceIds :
        (/\ focused_window_id = Some(WindowId(id))
         /\ \/ FedTo("DESTROY", id)
            \/ FedTo("FOCUS", id) /\ ~IsFocused(ParseKvTail(last'.toks)))
        => focused_window_id' = None

C3_Focus == [](C3_FocusState) /\ [][C3_FocusCleared]_vars

\* C3 witness: the focused window's surface was destroyed while another
\* surface stays live, and the focus is gone.
C3_Witness ==
    /\ LastIs("DESTROY", "1")
    /\ focused_window_id = None
    /\ "1" \notin DOMAIN surfaces
    /\ z_order = <<"win-2">>
    /\ registry_json # None
    /\ registry_json[1].focused_window_id = None

\* C4 (as claimed): every live surface has a window that is a member of the
\* z-order list.
C4_EverySurfaceInZOrder ==
    \A s \in DOMAIN surfaces :
        /\ surfaces[s].window_id # None
        /\ surfaces[s].window_id[1] \in Range(z_order)

\* C7: a DESTROY of the surface whose frame is open leaves no frame open,
\* an empty content buffer and the frames directory as it was; and with no
\* frame open, FRAME_END, FRAME_BEGIN and close() write no artifact.
C7_Discarded ==
    \A id \in SurfaceIds :
        (/\ current_key # None
         /\ current_key[1].surface_id = id
         /\ FedTo("DESTROY", id))
        => /\ current_key' = None
           /\ current_lines' = <<>>
           /\ frames_dir' = frames_dir

C7_NothingLeftToFlush ==
    (current_key = None /\ last'.tag \in {"FRAME_END", "FRAME_BEGIN", "CLOSE"})
        => frames_dir' = frames_dir

C7_DestroyDiscardsFrame ==
    [][C7_Discarded /\ C7_NothingLeftToFlush]_vars

\* C7 witness: the frame of surface 1 held a content line when DESTROY id=1
\* arrived; no artifact of that frame exists.
C7_Witness ==
    /\ LastIs("DESTROY", "1")
    /\ before.key = Some(FrameKey("1", 0))
    /\ before.lines = <<"P3">>
    /\ current_key = None
    /\ FrameFile(FrameKey("1", 0)) \notin DOMAIN frames_dir

\* C8: a FRAME_BEGIN id=x seq=n that arrives while a frame is open writes
\* the interrupted frame's artifact, under the interrupted frame's key, if
\* that frame holds a content line, and writes nothing if it holds none;
\* afterwards the open frame is (x, n) with no content line.
C8_BeginStep ==
    \A id \in {"1", "2"} :
        (FedTo("FRAME_BEGIN", id) /\ current_key # None)
        => /\ current_lines # <<>> =>
                /\ frames_dir' = Written(frames_dir, FrameFile(current_key[1]),
                                         EachLineEnded(current_lines))
                /\ current_key[1].surface_id \in DOMAIN surfaces'
                /\ surfaces'[current_key[1].surface_id].latest_seq
                       = Some(current_key[1].seq)
           /\ current_lines = <<>> =>
                /\ frames_dir' = frames_dir
                /\ surfaces' = surfaces
           /\ current_key' =
                  Some([surface_id |-> id,
                        seq |-> SeqOf(ParseKvTail(last'.toks))])
           /\ current_lines' = <<>>

C8_BeginFlushesInterrupted == [][C8_BeginStep]_vars

\* C8 witness: frame (1, 0) held one content line when FRAME_BEGIN id=2
\* seq=0 arrived; its artifact is written, no artifact of surface 2 exists
\* and frame (2, 0) is open, empty.
C8_Witness ==
    /\ LastIs("FRAME_BEGIN", "2")
    /\ before.key = Some(FrameKey("1", 0)) /\ before.lines = <<"P3">>
    /\ current_key = Some(FrameKey("2", 0))
    /\ current_lines = <<>>
    /\ DOMAIN frames_dir = {"surface-1-seq-0.ppm"}
    /\ frames_dir["surface-1-seq-0.ppm"] = "P3\n"

\* C11: close() with a frame open writes that frame's artifact (every
\* content line newline-ended; one newline when the frame holds no line),
\* records seq, hash and path on the frame's surface, leaves no frame open
\* and persists the registry; close() with no frame open writes no artifact
\* and persists the registry.
C11_CloseStep ==
    (last'.tag = "CLOSE") =>
        /\ current_key' = None
        /\ current_lines' = <<>>
        /\ registry_json' = Some(Snapshot(Bridge'))
        /\ current_key = None => frames_dir' = frames_dir
        /\ current_key # None =>
             LET key == current_key[1]
                 text == IF current_lines = <<>> THEN "\n"
                         ELSE EachLineEnded(current_lines)
             IN  /\ frames_dir' = Written(frames_dir, FrameFile(key), text)
                 /\ key.surface_id \in DOMAIN surfaces'
                 /\ surfaces'[key.surface_id].latest_seq = Some(key.seq)
                 /\ surfaces'[key.surface_id].latest_sha256 = Some(Sha256(text))
                 /\ surfaces'[key.surface_id].latest_path
                        = Some(RelPath(FrameFile(key)))

C11_CloseFlushesPartial == [][C11_CloseStep]_vars

\* C11 witness: close() found frame (1, 0) of the live surface 1 open with
\* no content line; the artifact is there, one newline long, and the
\* persisted registry records it.
C11_Witness ==
    /\ last = Closed
    /\ before.key = Some(FrameKey("1", 0)) /\ before.lines = <<>>
    /\ current_key = None
    /\ frames_dir = ("surface-1-seq-0.ppm" :> "\n")
    /\ "win-1" \in Range(z_order)
    /\ registry_json # None
    /\ registry_json[1].surfaces["1"].latest_seq = Some(0)
    /\ registry_json[1].surfaces["1"].latest_path
           = Some("frames/surface-1-seq-0.ppm")

\* C12 (as claimed): a flush that writes the artifact of a frame whose
\* surface id is not in the registry leaves the set of surfaces, the set of
\* windows and the z-order list as they were.
C12_FlushStep ==
    (/\ current_key # None
     /\ current_key[1].surface_id \notin DOMAIN surfaces
     /\ last'.tag \in {"FRAME_BEGIN", "FRAME_END", "CLOSE"}
     /\ frames_dir' # frames_dir)
    => /\ FrameFile(current_key[1]) \in DOMAIN frames_dir'
       /\ DOMAIN surfaces' = DOMAIN surfaces
       /\ DOMAIN WindowMap(Bridge') = DOMAIN WindowMap(Bridge)
       /\ z_order' = z_order

C12_FlushAddsNoSurface == [][C12_FlushStep]_vars

-----------------------------------------------------------------------------
(* Claims on the window specification *)

\* The list without one window id, the others in their order.
Without(list, win) == SelectSeq(list, LAMBDA e : e # win)

\* C5: after FOCUS id=X focused=<true>, whatever was focused before, the
\* focused window is the window of surface X, surface X is live, and that
\* window is the last element of the z-order list; the other windows keep
\* their relative order.
C5_FocusStep ==
    \A id \in WindowIds :
        (FedTo("FOCUS", id) /\ IsFocused(ParseKvTail(last'.toks)))
        => /\ id \in DOMAIN surfaces'
           /\ surfaces'[id].window_id = Some(WindowId(id))
           /\ focused_window_id' = Some(WindowId(id))
           /\ z_order' # <<>>
           /\ z_order'[Len(z_order')] = WindowId(id)
           /\ Without(z_order', WindowId(id)) = Without(z_order, WindowId(id))
           /\ registry_json' # None
           /\ registry_json'[1].focused_window_id = Some(WindowId(id))
           /\ registry_json'[1].z_order = z_order'

C5_FocusedIsFrontMost == [][C5_FocusStep]_vars

\* C5 witness: three windows; FOCUS id=1 focused=true was fed last, win-1
\* holds the focus and is the tail of the list behind win-2 and win-3.
C5_Witness ==
    /\ LastIs("FOCUS", "1")
    /\ IsFocused(LastKv)
    /\ z_order = <<"win-2", "win-3", "win-1">>
    /\ focused_window_id = Some("win-1")

\* The step just taken fed FOCUS id=<id> with a focused value that is not
\* one of the true spellings.
FedUnfocus(id) ==
    FedTo("FOCUS", id) /\ ~IsFocused(ParseKvTail(last'.toks))

\* C32: FOCUS id=X focused=false leaves no window focused if X's window
\* held the focus and leaves the focus as it was otherwise (so it is
\* cleared exactly when X's window held it, and no other window gets it);
\* the windows that were in the z-order list keep their order.
C32_UnfocusStep ==
    \A id \in WindowIds :
        FedUnfocus(id)
        => /\ focused_window_id' =
                IF focused_window_id = Some(WindowId(id))
                THEN None ELSE focused_window_id
           /\ SelectSeq(z_order', LAMBDA w : w \in Range(z_order)) = z_order
           /\ registry_json' # None
           /\ registry_json'[1].focused_window_id = focused_window_id'
           /\ registry_json'[1].z_order = z_order'

C32_UnfocusClearsOwnFocusOnly == [][C32_UnfocusStep]_vars

\* C32 witness: win-2 is focused behind two other windows and
\* FOCUS id=1 focused=false was fed last: win-2 is still focused.
C32_Witness ==
    /\ LastIs("FOCUS", "1")
    /\ ~IsFocused(LastKv)
    /\ focused_window_id = Some("win-2")
    /\ z_order = <<"win-1", "win-3", "win-2">>

\* C6: DESTROY id=X removes surface X and its window from the registry and
\* the z-order list and clears the focus if X's window held it; the other
\* surfaces' entries, their relative z-order and a focus held by another
\* window are unchanged.
C6_DestroyStep ==
    \A id \in WindowIds :
        FedTo("DESTROY", id)
        => /\ DOMAIN surfaces' = DOMAIN surfaces \ {id}
           /\ \A other \in DOMAIN surfaces' : surfaces'[other] = surfaces[other]
           /\ WindowId(id) \notin Range(z_order')
           /\ z_order' = Without(z_order, WindowId(id))
           /\ focused_window_id' =
                  IF focused_window_id = Some(WindowId(id)) THEN None
                  ELSE focused_window_id
           /\ registry_json' # None
           /\ id \notin DOMAIN registry_json'[1].surfaces
           /\ WindowId(id) \notin DOMAIN registry_json'[1].windows
           /\ WindowId(id) \notin Range(registry_json'[1].z_order)

C6_DestroyRemoves == [][C6_DestroyStep]_vars

\* C6 witness: DESTROY id=2 was fed last and surface 2 is gone; win-3 and
\* win-1 are left in that order, win-3 holds the focus and surface 1 keeps
\* the role its CREATE gave it.
C6_Witness ==
    /\ LastIs("DESTROY", "2")
    /\ "2" \notin DOMAIN surfaces
    /\ z_order = <<"win-3", "win-1">>
    /\ focused_window_id = Some("win-3")
    /\ surfaces["1"].role = Some("toplevel")

-----------------------------------------------------------------------------
(* Claims on the frame specification *)

\* C9: a FRAME_END id=x seq=n closes the open frame only if (x, n) is the
\* open frame's key; otherwise, and when no frame is open, no field of the
\* bridge changes (the frame stays open with its content).
C9_EndStep ==
    \A id \in {"1", "2"} :
        FedTo("FRAME_END", id)
        => LET n == ParseInt(ParseKvTail(last'.toks)["seq"])
               matches == /\ current_key # None
                          /\ current_key[1].surface_id = id
                          /\ current_key[1].seq = n
           IN  /\ matches => current_key' = None /\ current_lines' = <<>>
               /\ ~matches => UNCHANGED bridge_vars

C9_EndClosesOnlyItsFrame == [][C9_EndStep]_vars

\* C9 witness: FRAME_END id=1 seq=1 arrived while frame (1, 0) held two
\* content lines; the frame is still open with them.
C9_Witness ==
    /\ last = TagLine("FRAME_END", <<Tok("id", "1"), Tok("seq", "1")>>)
    /\ before.key = Some(FrameKey("1", 0)) /\ before.lines = <<"P3", "">>
    /\ current_key = Some(FrameKey("1", 0))
    /\ current_lines = <<"P3", "">>
    /\ frames_dir = <<>>

\* C10: content lines are appended to the open frame in arrival order; the
\* matching FRAME_END of a frame (X, n) that holds lines L, L not empty,
\* writes each line of L followed by a newline as the artifact of (X, n) and
\* sets surface X's latest_seq to n, latest_sha256 to the hash of that text
\* and latest_path to the artifact; and in every state a surface that has a
\* latest_path has the hash of that file's present content as
\* latest_sha256.
C10_ContentStep ==
    (last'.tag = "NOISE" /\ current_key # None)
        => current_lines' = current_lines \o <<last'.text>>

C10_EndStep ==
    \A id \in {"1", "2"}, n \in SeqTexts :
        (/\ last' = TagLine("FRAME_END", <<Tok("id", id), Tok("seq", n)>>)
         /\ current_key = Some([surface_id |-> id, seq |-> IntLiterals[n]])
         /\ current_lines # <<>>)
        => LET file == "surface-" \o id \o "-seq-" \o n \o ".ppm"
               text == EachLineEnded(current_lines)
           IN  /\ frames_dir' = Written(frames_dir, file, text)
               /\ id \in DOMAIN surfaces'
               /\ surfaces'[id].latest_seq = Some(IntLiterals[n])
               /\ surfaces'[id].latest_sha256 = Some(Sha256(text))
               /\ surfaces'[id].latest_path = Some("frames/" \o file)

C10_LatestMatchesFile ==
    \A s \in DOMAIN surfaces :
        surfaces[s].latest_path # None =>
            \E f \in DOMAIN frames_dir :
                /\ surfaces[s].latest_path = Some("frames/" \o f)
                /\ surfaces[s].latest_sha256 = Some(Sha256(frames_dir[f]))

C10_ArtifactRoundTrip ==
    [](C10_LatestMatchesFile) /\ [][C10_ContentStep /\ C10_EndStep]_vars

\* C10 witness: the round-trip scenario: surface 1 created as a 100x50
\* toplevel, frame (1, 0) with two different content lines closed by its
\* FRAME_END.
C10_Witness ==
    /\ last = TagLine("FRAME_END", <<Tok("id", "1"), Tok("seq", "0")>>)
    /\ before.key = Some(FrameKey("1", 0)) /\ before.lines = <<"P3", "">>
    /\ "1" \in DOMAIN surfaces
    /\ surfaces["1"].role = Some("toplevel")
    /\ surfaces["1"].w = Some(100)
    /\ surfaces["1"].h = Some(50)
    /\ surfaces["1"].latest_seq = Some(0)
    /\ surfaces["1"].latest_sha256 = Some(Sha256("P3\n\n"))
    /\ frames_dir["surface-1-seq-0.ppm"] = "P3\n\n"
    /\ current_key = None

-----------------------------------------------------------------------------
(* Claims on the noise specification *)

\* C1 (as claimed): whatever unmatched lines are interleaved, the registry
\* equals the registry of the bridge that was fed the tag lines alone.
C1_RegistryOfTagLinesAlone == Snapshot(Bridge) = Snapshot(quiet)

\* C1 (amended): an unmatched line changes no field of the bridge when no
\* frame is open and only appends itself to the content of the frame when
\* one is open; as long as no unmatched line has arrived while a frame was
\* open, the registry in memory and the persisted one equal those of the
\* bridge that was fed the tag lines alone.
C1_NoiseStep ==
    last'.tag = "NOISE" =>
        IF current_key = None
        THEN UNCHANGED bridge_vars
        ELSE /\ current_lines' = Append(current_lines, last'.text)
             /\ UNCHANGED <<surfaces, z_order, focused_window_id, current_key,
                            frames_dir, registry_json>>

C1_SameUnlessNoiseInFrame ==
    ~noise_in_frame =>
        /\ Snapshot(Bridge) = Snapshot(quiet)
        /\ registry_json = quiet.registry_json

C1_NoiseOutsideFramesIsNoOp ==
    [](C1_SameUnlessNoiseInFrame) /\ [][C1_NoiseStep]_vars

\* C1 witness: noise arrived, never inside a frame, after tag lines had
\* created and focused surface 1 and close() had written its empty frame.
C1_Witness ==
    /\ last.tag = "NOISE"
    /\ ~noise_in_frame
    /\ focused_window_id = Some("win-1")
    /\ "surface-1-seq-0.ppm" \in DOMAIN frames_dir
    /\ quiet.registry_json # None
    /\ current_key = None

-----------------------------------------------------------------------------
(* Claims on the error specification *)

\* C13 (as claimed): no on_line call raises, whatever protocol error the
\* tag line carries.
C13_OnLineNeverRaises == last.tag \notin {"INIT", "CLOSE"} => raised = FALSE

-----------------------------------------------------------------------------
(* Claims on the run specification *)

\* The marker-echo commands among the writes to the child's stdin
Injections(r) ==
    SelectSeq(r.stdin, LAMBDA c : c = "echo " \o r.ready_marker \o "\n")

\* The post-ready commands among the writes to the child's stdin
PostReadySends(r) == SelectSeq(r.stdin, LAMBDA c : c = r.post_ready_send)

\* The step is a pass that read a line containing the ready marker.
ReadMarkerLine ==
    /\ run.pc = "loop"
    /\ run'.chunk # None
    /\ run'.chunk[1].marker

\* C14 (as claimed): with ready marker "RAYOS_READY" and no post-ready step
\* configured, a line containing the marker that is read after an earlier
\* line contained a shell hint ends the run with 0 at the marker, no
\* post-ready command sent, and exactly one injection command written.
C14_MarkerStep ==
    (/\ ReadMarkerLine
     /\ run.ready_marker = "RAYOS_READY"
     /\ run.post_ready_send = "" /\ run.post_ready_expect = ""
     /\ run.saw_shell_hint)
    => /\ run'.pc = "returned"
       /\ run'.result = Some(0)
       /\ run'.at = "ready"
       /\ ~run'.sent_post_ready
       /\ run'.stdin = <<"echo RAYOS_READY\n">>

C14_ReadyScenario == [][C14_MarkerStep]_vars

\* C15 (as claimed): the run returns at the post-ready expectation only if,
\* before the line was read, the ready marker had been observed and the
\* post-ready command written.
C15_ExpectStep ==
    (run.pc = "loop" /\ run'.at = "post_ready")
    => /\ run.observed_ready
       /\ run.sent_post_ready
       /\ Len(PostReadySends(run)) = 1

C15_SuccessOnlyFromPostReadySent == [][C15_ExpectStep]_vars

\* C16: the marker-echo command is written at most once, and a pass writes
\* it only if the line it read, or an earlier line, contained a shell hint
\* (saw_shell_hint is set by such a line only).
C16_Once == Len(Injections(run)) <= 1

C16_HintFirst ==
    /\ (run.pc = "loop" /\ run'.saw_shell_hint)
       => \/ run.saw_shell_hint
          \/ run'.chunk # None /\ run'.chunk[1].hint
    /\ (run.pc = "loop" /\ Injections(run') # Injections(run))
       => /\ run'.saw_shell_hint
          /\ Injections(run) = <<>>

C16_InjectionOnceAfterHint == [](C16_Once) /\ [][C16_HintFirst]_vars

\* C16 witness: the marker-echo command and then the post-ready command
\* had been written before the last pass, which read one more line with a
\* shell hint; the run goes on and no second marker-echo was written.
C16_Witness ==
    /\ run.pc = "loop"
    /\ run.ready_before
    /\ run.saw_shell_hint /\ run.injected_ready
    /\ run.chunk = Some(RunLine(TRUE, FALSE, FALSE, NoiseLine("P3")))
    /\ run.stdin = <<"echo RAYOS_LINUX_GUEST_READY\n", "ping\n">>

\* C17: with a post-ready command configured, it is never written before
\* the ready marker was observed, never twice, and while the run goes on
\* after the marker it has been written exactly once.
C17_NotBeforeReadyNotTwice ==
    /\ Len(PostReadySends(run)) <= 1
    /\ PostReadySends(run) # <<>> => run.observed_ready
    /\ run.post_ready_send = "" => ~run.sent_post_ready

C17_SentWhileRunning ==
    (run.pc = "loop" /\ run.post_ready_send # "" /\ run.observed_ready)
    => Len(PostReadySends(run)) = 1

C18_RemarkStep ==
    (ReadMarkerLine /\ run.observed_ready)
    => /\ run'.ready_before
       /\ run'.observed_ready
       /\ run'.sent_post_ready = run.sent_post_ready
       /\ PostReadySends(run') = PostReadySends(run)
       /\ IF run'.chunk[1].hint /\ ~run.saw_shell_hint
          THEN run'.stdin \in {run.stdin,
                               Append(run.stdin,
                                      "echo " \o run.ready_marker \o "\n")}
          ELSE /\ run'.saw_shell_hint = run.saw_shell_hint
               /\ run'.injected_ready = run.injected_ready
               /\ run'.stdin = run.stdin

C19_MarkerStep ==
    (ReadMarkerLine /\ run.post_ready_send = "")
    => /\ run'.pc = "returned"
       /\ run'.result = Some(0)

C19_ReadyAloneSucceeds == [][C19_MarkerStep]_vars

\* C20 (as claimed): when the run ends because the child has exited, its
\* result is the child's exit code.
C20_ResultIsChildExitCode ==
    run.at = "child_exit" => run.result = run.child

\* C23 (as claimed): a failure of a write to the child's stdin is swallowed,
\* so no run ends by the exception of such a write.
C23_StdinFailureSwallowed == run.error # Some("stdin")

-----------------------------------------------------------------------------
(* Claims on the guest specification *)

\* The run has left run_guest, by a return or by an exception.
Ended == run.pc \in {"returned", "raised"}

\* C21 (as claimed): with a positive deadline every run eventually ends,
\* also when the child neither prints another line nor exits.
C21_EventuallyEnds == (run.timeout_secs > 0) ~> Ended

\* A SurfaceBridge was constructed.
BridgeExists ==
    run.has_bridge /\ run.pc # "spawned" /\ run.error # Some("construct")

\* C22 (as claimed): whenever the run has ended after the child was
\* spawned, a failure to construct the bridge included, shutdown() has been
\* called, and a bridge that exists has been closed: no frame is left open,
\* and the frame that was open is in its file if the directory is writable.
C22_ShutDownAndClosedOnEveryPath ==
    Ended =>
        /\ run.child # None
        /\ BridgeExists =>
               /\ last = Closed
               /\ current_key = None
               /\ (before.key # None /\ host.writable)
                     => FrameFile(before.key[1]) \in DOMAIN frames_dir

\* C24 (as claimed): when the run ends because the child has exited, every
\* line the child wrote has been read and is in the log: none is left
\* unread in the pipe.
C24_NothingLeftUnread == run.at = "child_exit" => host.stdout = <<>>

\* C25 (as claimed): a pass hands the line it read to the log first, then
\* to the readiness tests, and only then to the bridge.
C25_LogThenReadinessThenBridge ==
    run.stages \in {<<>>,
                    <<"log_fp.write">>,
                    <<"log_fp.write", "readiness">>,
                    <<"log_fp.write", "readiness", "bridge.on_line">>}

\* The step is the rest of a pass whose readline() returned a line
\* containing the ready marker.
ReturnedMarkerLine ==
    /\ run.pc = "readline"
    /\ run'.pc # "readline"
    /\ run'.chunk # None
    /\ run'.chunk[1].marker

\* C26 (as claimed): no run ends by an exception of the bridge, and a pass
\* that reads a line containing the ready marker observes it, and returns
\* 0 when no post-ready command is configured, whether or not the bridge
\* can write its output directory.
C26_MarkerStep ==
    ReturnedMarkerLine
    => /\ run'.observed_ready
       /\ run.post_ready_send = "" => run'.result = Some(0)

C26_ReadinessSurvivesBridgeFailure ==
    [](run.error # Some("bridge")) /\ [][C26_MarkerStep]_vars

-----------------------------------------------------------------------------
(* Claims on the persisted registry *)

\* The in-memory registry: surfaces (with their latest-frame fields),
\* z-order and focus.
Registry == <<surfaces, z_order, focused_window_id>>

\* registry.json holds the projection of the in-memory registry.
Persisted == registry_json = Some(Snapshot(Bridge))

\* C27 (as claimed): a call of on_line or close that changes the in-memory
\* registry leaves registry.json equal to the snapshot of the registry as
\* the call left it.
C27_MutationStep == Registry' # Registry => Persisted'

C27_EveryMutationPersisted == [][C27_MutationStep]_vars

\* C28 (as claimed): a read of registry.json that finds the file, made at
\* any point of the bridge's processing, returns the complete snapshot of
\* the registry, never an empty or partially written document.
C28_ReadsCompleteSnapshot ==
    (host.observed # None /\ host.observed[1].doc # None)
    => host.observed[1].doc = Some(host.observed[1].memory)

\* C28 (amended): a read of registry.json that finds the file and does not
\* fall between the open and the end of a write_text returns the complete
\* snapshot of the registry as the last call of on_line left it.
C28_ReadsOutsideRewriteComplete ==
    (/\ host.observed # None
     /\ host.observed[1].doc # None
     /\ ~host.observed[1].rewriting)
    => host.observed[1].doc = Some(host.observed[1].memory)

\* C28 witness: a read outside a rewrite returned the snapshot with
\* surface 2 focused, after which surface 2 was destroyed and the file
\* rewritten.
C28_Witness ==
    /\ host.observed # None
    /\ ~host.observed[1].rewriting
    /\ host.observed[1].doc # None
    /\ host.observed[1].memory.focused_window_id = Some("win-2")
    /\ host.unwritten = None
    /\ "2" \notin DOMAIN surfaces
    /\ Persisted

\* C29: in the snapshot in registry.json, the parent_window_id of a window
\* is the window of the parent its surface declares if that surface is in
\* the snapshot, and null if it is not or none is declared; and the
\* children of a window are the windows of the snapshot whose
\* parent_window_id is that window.
C29_ParentAndChildrenResolved ==
    registry_json # None =>
        LET doc == registry_json[1]
        IN  \A wid \in DOMAIN doc.windows :
                LET entry == doc.windows[wid]
                    declared == doc.surfaces[entry.surface_id].parent_surface_id
                IN  /\ entry.parent_window_id =
                          IF declared # None /\ declared[1] \in DOMAIN doc.surfaces
                          THEN doc.surfaces[declared[1]].window_id
                          ELSE None
                    /\ entry.children =
                          {c \in DOMAIN doc.windows :
                              doc.windows[c].parent_window_id = Some(wid)}

\* C29 witness: surface 2 declares parent 1, surface 1 has been destroyed
\* by the last line, and the snapshot written by it shows window win-2
\* without parent next to win-3.
C29_Witness ==
    /\ LastIs("DESTROY", "1")
    /\ "1" \notin DOMAIN surfaces
    /\ "2" \in DOMAIN surfaces /\ "3" \in DOMAIN surfaces
    /\ surfaces["2"].parent_surface_id = Some("1")
    /\ Persisted
    /\ registry_json[1].windows["win-2"].parent_window_id = None

-----------------------------------------------------------------------------
(* Claims on the latest-frame fields *)

\* The step flushes the open frame into its file: close() always, a
\* FRAME_BEGIN or the FRAME_END of the open frame if it holds content.
FlushesOpenFrame ==
    /\ current_key # None
    /\ \/ last'.tag = "CLOSE"
       \/ last'.tag = "FRAME_BEGIN" /\ current_lines # <<>>
       \/ /\ last'.tag = "FRAME_END"
          /\ current_lines # <<>>
          /\ EndMatches(Bridge, ParseKvTail(last'.toks))

\* C30: a step that flushes the open frame (X, n) into its file leaves
\* latest_seq of surface X equal to n, whatever latest_seq was before.
C30_FlushStep ==
    FlushesOpenFrame
    => /\ current_key[1].surface_id \in DOMAIN surfaces'
       /\ surfaces'[current_key[1].surface_id].latest_seq
             = Some(current_key[1].seq)

C30_LastFlushedWins == [][C30_FlushStep]_vars

\* C30 witness: surface 1 recorded latest_seq 1 when FRAME_END closed its
\* frame with seq 0 and two content lines; it records 0 now.
C30_Witness ==
    /\ last.tag = "FRAME_END"
    /\ before.key = Some(FrameKey("1", 0))
    /\ Len(before.lines) = 2
    /\ before.latest = Some(1)
    /\ current_key = None
    /\ surfaces["1"].latest_seq = Some(0)
    /\ "surface-1-seq-1.ppm" \in DOMAIN frames_dir

-----------------------------------------------------------------------------
(* Claims on shutdown *)

\* C31: shutdown() delivers SIGTERM before SIGKILL and each at most once;
\* it polls at most PollCount times after SIGTERM and delivers SIGKILL only
\* after PollCount polls that all found the child alive; it delivers a
\* signal only to a child that has not exited, none at all when the child
\* had exited before the call; and it returns.
C31_TermThenKill ==
    /\ run.sent \in {<<>>, <<"SIGTERM">>, <<"SIGTERM", "SIGKILL">>}
    /\ run.polls <= PollCount
    /\ "SIGKILL" \in Range(run.sent) => run.polls = PollCount

C31_SignalStep ==
    /\ run'.sent # run.sent => host.returncode = None
    /\ (run.pc = "shutdown.for" /\ run'.pc = "shutdown.kill")
       => host.returncode = None /\ run'.polls = PollCount

C31_ShutdownSequence ==
    /\ [](C31_TermThenKill)
    /\ [][C31_SignalStep]_vars
    /\ <>(run.pc = "shutdown.return")

\* C31 witness: shutdown() has returned after SIGTERM, PollCount polls and
\* SIGKILL, the child not yet gone.
C31_Witness ==
    /\ run.pc = "shutdown.return"
    /\ run.sent = <<"SIGTERM", "SIGKILL">>
    /\ run.polls = PollCount
    /\ host.returncode = None

-----------------------------------------------------------------------------
(* Claims on the token specification *)

\* The keys the handler of a tag reads from the parsed tokens.
KeysRead(tag) ==
    CASE tag = "CREATE" -> {"id", "role", "title", "format", "w", "h"}
      [] tag = "ROLE" -> {"id", "role"}
      [] tag = "PARENT" -> {"id", "parent"}
      [] tag = "STATE" -> {"id", "states"}
      [] tag = "FOCUS" -> {"id", "focused"}
      [] tag = "CONFIGURE" -> {"id", "x", "y", "w", "h"}
      [] tag = "DESTROY" -> {"id"}
      [] tag \in {"FRAME_BEGIN", "FRAME_END"} -> {"id", "seq"}
      [] OTHER -> {}

\* Tokens of a tag line that have no "=" or whose key the handler does
\* not read.
Ignorable(line) ==
    {i \in 1..Len(line.toks) :
        \/ Len(line.toks[i]) < 2
        \/ line.toks[i][1] \notin KeysRead(line.tag)}

\* The same line with those tokens removed.
Stripped(line) ==
    [line EXCEPT !.toks =
        SelectSeq(@, LAMBDA t : Len(t) = 2 /\ t[1] \in KeysRead(line.tag))]

\* C33: a tag line with tokens without "=" and with keys its handler does
\* not read raises nothing and leaves the bridge (registry, z-order, focus,
\* persisted registry, open frame and frame artifacts) exactly as the same
\* line without those tokens would have left it.
C33_TokenStep ==
    (last'.tag \notin {"NOISE", "CLOSE", "INIT"} /\ Ignorable(last') # {})
    => LET clean == on_line(Bridge, Stripped(last'))
       IN  /\ ~raised'
           /\ surfaces' = clean.surfaces
           /\ z_order' = clean.z_order
           /\ focused_window_id' = clean.focused_window_id
           /\ registry_json' = clean.registry_json
           /\ current_key' = clean.current_key
           /\ current_lines' = clean.current_lines
           /\ frames_dir' = clean.frames_dir

C33_IgnoredTokensChangeNothing == [][C33_TokenStep]_vars

\* C33 witness: "CREATE id=1 junk foo=bar role=toplevel x=1" was fed last
\* and surface 1 is registered with the role that follows the ignored
\* tokens, no x.
C33_Witness ==
    /\ LastIs("CREATE", "1")
    /\ Ignorable(last) = {2, 3, 5}
    /\ "1" \in DOMAIN surfaces
    /\ surfaces["1"].role = Some("toplevel")
    /\ surfaces["1"].x = None
    /\ registry_json # None

-----------------------------------------------------------------------------
(* Claims on the exit status *)

\* The line read in the last pass contains the ready marker and no
\* post-ready command is configured, or a post-ready expectation is
\* configured and the line contains it.
SuccessConditionMet ==
    /\ run.chunk # None
    /\ \/ /\ run.chunk[1].marker
          /\ run.observed_ready
          /\ run.post_ready_send = ""
       \/ /\ run.post_ready_expect # ""
          /\ run.chunk[1].expect
          /\ run.observed_post_ready

\* C34: a run that has ended with exit status 0 from main has returned at
\* the marker test or at the expectation test, on a line that meets the
\* success condition; a run ended by the deadline, by another exception or
\* by the child's exit has a status other than 0.
C34_ZeroOnlyOnSuccess ==
    run.pc \in {"returned", "raised"}
    => /\ main(run) = 0
          => /\ run.pc = "returned"
             /\ run.at \in {"ready", "post_ready"}
             /\ SuccessConditionMet
       /\ run.pc = "raised" => main(run) = 1
       /\ run.at = "child_exit" => main(run) # 0

\* C34 witness: the run returned 0 on a line with the post-ready
\* expectation and without the marker.
C34_Witness ==
    /\ run.pc = "returned"
    /\ main(run) = 0
    /\ run.at = "post_ready"
    /\ ~run.chunk[1].marker
    /\ run.chunk[1].expect

\* C34 witness of the other side: the child exited with code 0 before any
\* success and the status is 1.
C34_WitnessChildExit ==
    /\ run.pc = "returned"
    /\ run.at = "child_exit"
    /\ run.child = Some(0)
    /\ ~run.observed_ready
    /\ main(run) = 1

-----------------------------------------------------------------------------
(* Claims on tag lines inside a frame *)

RegistryTags ==
    {"CREATE", "CONFIGURE", "ROLE", "FOCUS", "PARENT", "STATE", "DESTROY"}

\* The step just taken fed a registry tag line, not a DESTROY of the
\* surface of the open frame, while a frame was open.
FedRegistryTagInFrame ==
    /\ current_key # None
    /\ last'.tag \in RegistryTags
    /\ last'.tag = "DESTROY"
       => Get(ParseKvTail(last'.toks), "id")
            # Some(current_key[1].surface_id)

\* C35: a registry tag line (other than a DESTROY of the frame's surface)
\* fed while a frame is open changes the registry as it would with no
\* frame open and leaves the open frame's key, its content lines and the
\* frame artifacts as they were.
C35_TagStep ==
    FedRegistryTagInFrame
    => /\ current_key' = current_key
       /\ current_lines' = current_lines
       /\ frames_dir' = frames_dir
       /\ [Bridge' EXCEPT !.current_key = None, !.current_lines = <<>>]
          = on_line([Bridge EXCEPT !.current_key = None,
                                   !.current_lines = <<>>], last')

C35_TagLinesLeaveOpenFrame == [][C35_TagStep]_vars

\* C35 witness: a frame of surface 1 holds one content line, DESTROY id=2
\* was fed last and removed surface 2; the frame is as it was.
C35_Witness ==
    /\ LastIs("DESTROY", "2")
    /\ before.key = Some(FrameKey("1", 0))
    /\ before.lines = <<"P3">>
    /\ current_key = Some(FrameKey("1", 0))
    /\ current_lines = <<"P3">>
    /\ DOMAIN surfaces = {"1"}

-----------------------------------------------------------------------------
(* Claims on the content buffer *)

\* No frame is open and the buffer is empty, or one frame is open.
C36_BufferState == current_key = None => current_lines = <<>>

\* A step changes the buffer only by emptying it or, with a frame open
\* before and after under the same key, by appending the unmatched line
\* fed; FRAME_BEGIN leaves the buffer empty; a step that changes the
\* frame artifacts writes one file, the one of the frame that was open,
\* with the lines that were in the buffer.
C36_BufferStep ==
    /\ current_lines' # current_lines
       => \/ current_lines' = <<>>
          \/ /\ current_key # None
             /\ current_key' = current_key
             /\ last'.tag = "NOISE"
             /\ current_lines' = Append(current_lines, last'.text)
    /\ last'.tag = "FRAME_BEGIN" => current_lines' = <<>>
    /\ frames_dir' # frames_dir
       => /\ current_key # None
          /\ frames_dir' = Written(frames_dir, FrameFile(current_key[1]),
                                   PpmText(current_lines))

\* C36: the bridge holds at most one open frame (one key, one buffer); the
\* buffer is empty whenever no frame is open and when a frame is opened,
\* and it grows only by the lines fed while that frame is open, so an
\* artifact holds content lines of its own frame only.
C36_OneFrameOwnLines == [](C36_BufferState) /\ [][C36_BufferStep]_vars

\* C36 witness: the frame with seq 0 was written with its line "P3"; the
\* frame with seq 1, opened after it, has been closed by its FRAME_END and
\* its artifact holds its own blank line only.
C36_Witness ==
    /\ last.tag = "FRAME_END"
    /\ before.key = Some(FrameKey("1", 1))
    /\ before.lines = <<"">>
    /\ current_key = None
    /\ current_lines = <<>>
    /\ frames_dir = ("surface-1-seq-0.ppm" :> "P3\n")
                     @@ ("surface-1-seq-1.ppm" :> "\n")

-----------------------------------------------------------------------------
(* Claims on the re-creation specification *)

\* What a CREATE with these tokens makes of a live surface's entry.
Recreated(info, kv) ==
    [info EXCEPT
        !.role = Get(kv, "role"),
        !.title = Get(kv, "title"),
        !.format = Get(kv, "format"),
        !.w = IF "w" \in DOMAIN kv THEN Some(ParseInt(kv["w"])) ELSE @,
        !.h = IF "h" \in DOMAIN kv THEN Some(ParseInt(kv["h"])) ELSE @]

\* C37: a CREATE for a surface id that is in the registry leaves the
\* z-order list, the focus, the open frame and every other surface as they
\* were, and changes of the surface's entry only role, title and format,
\* to the values on the line or to none when the line omits them, and w
\* and h, only when the line gives them; parent, state flags, x, y, window
\* id and latest-frame fields stay.
C37_RecreateStep ==
    \A id \in {"1", "2"} :
        (FedTo("CREATE", id) /\ id \in DOMAIN surfaces)
        => /\ z_order' = z_order
           /\ focused_window_id' = focused_window_id
           /\ current_key' = current_key
           /\ current_lines' = current_lines
           /\ surfaces' = [surfaces EXCEPT
                             ![id] = Recreated(@, ParseKvTail(last'.toks))]
           /\ registry_json' = Some(Snapshot(Bridge'))

C37_RecreateKeepsAllButGiven == [][C37_RecreateStep]_vars

\* C37 witness: surface 1 had size, role popup by a ROLE line, a parent,
\* state flags, the focus, a position and a latest frame; "CREATE id=1"
\* was fed last: role, title and format are none, the rest is there.
C37_Witness ==
    /\ LastIs("CREATE", "1")
    /\ Len(last.toks) = 1
    /\ "1" \in DOMAIN surfaces
    /\ surfaces["1"].role = None
    /\ surfaces["1"].title = None
    /\ surfaces["1"].w = Some(100)
    /\ surfaces["1"].parent_surface_id = Some("2")
    /\ surfaces["1"].states = Some(<<"active">>)
    /\ surfaces["1"].x = Some(1)
    /\ surfaces["1"].latest_seq = Some(0)
    /\ focused_window_id = Some("win-1")
    /\ z_order = <<"win-2", "win-1">>

-----------------------------------------------------------------------------
(* Claims on the extract specification *)

\* The log holds no frame without content line: the frames are those the
\* FRAME_BEGIN, FRAME_END and unmatched lines of the log delimit, the last
\* one ended by the end of the log.
EveryFrameHasContent ==
    LET framing == SelectSeq(host.log, LAMBDA line : line.tag # "CREATE")
    IN  ~flush_current(ExtractLoop(ExtractStart, framing)).empty_frame

\* The log holds no CREATE whose w or h is no integer literal.
SizesAreIntegers ==
    \A i \in 1..Len(host.log) :
        host.log[i].tag = "CREATE"
        => \A k \in {"w", "h"} :
              LET kv == ParseKvTail(host.log[i].toks)
              IN  k \in DOMAIN kv => IsInt(kv[k])

\* C38: after the lines of a log of CREATE, FRAME_BEGIN, FRAME_END and
\* unmatched lines (ids and seqs canonical integers, no frame without
\* content line) were fed to on_line and close() was called, the frames
\* directory holds the files extract() writes for the same log, with the
\* same texts.
C38_BridgeWritesWhatExtractWrites ==
    (last.tag = "CLOSE" /\ EveryFrameHasContent)
    => frames_dir = extract(host.log).files

\* The same for logs in which every w and h of a CREATE is an integer
\* literal.
BridgeWritesWhatExtractWritesForIntegerSizes ==
    (last.tag = "CLOSE" /\ EveryFrameHasContent /\ SizesAreIntegers)
    => frames_dir = extract(host.log).files

\* A frame was written by the bridge, a CREATE with a width that is no
\* integer literal followed, close() was called: extract() leaves no file.
ExtractRaisedAfterFrame ==
    /\ last.tag = "CLOSE"
    /\ Len(host.log) = 4
    /\ host.log[4].tag = "CREATE"
    /\ frames_dir = ("surface-1-seq-0.ppm" :> "P3\n")
    /\ extract(host.log).raised
    /\ extract(host.log).files = <<>>

\* A log of two frames, both written by both.
ExtractAgreesOnTwoFrames ==
    /\ last.tag = "CLOSE"
    /\ Len(host.log) = 4
    /\ DOMAIN frames_dir = {"surface-1-seq-0.ppm", "surface-2-seq-0.ppm"}
    /\ frames_dir = extract(host.log).files

-----------------------------------------------------------------------------
(* Claims on the omission specification *)

\* The step just taken fed a FRAME_BEGIN that carries no id.
FedBeginWithoutId ==
    /\ last'.tag = "FRAME_BEGIN"
    /\ Falsy(Get(ParseKvTail(last'.toks), "id"))

\* The frames directory after the open frame was flushed under the
\* non-partial policy: written if it has lines, dropped if it has none.
FlushedNonPartial ==
    IF current_key # None /\ current_lines # <<>>
    THEN Written(frames_dir, FrameFile(current_key[1]), PpmText(current_lines))
    ELSE frames_dir

\* C39: a FRAME_BEGIN without id writes the open frame if it has content
\* lines, drops it if it has none, and leaves no frame open; while no
\* frame is open an unmatched line changes nothing, and a frame is opened
\* only by a FRAME_BEGIN that carries an id.
C39_BeginStep ==
    /\ FedBeginWithoutId
       => /\ current_key' = None
          /\ current_lines' = <<>>
          /\ frames_dir' = FlushedNonPartial
          /\ ~raised'
    /\ (current_key = None /\ last'.tag = "NOISE")
       => UNCHANGED <<surfaces, z_order, focused_window_id, current_key,
                      current_lines, frames_dir, registry_json>>
    /\ (current_key = None /\ current_key' # None)
       => /\ last'.tag = "FRAME_BEGIN"
          /\ ~Falsy(Get(ParseKvTail(last'.toks), "id"))

C39_BeginWithoutIdOpensNothing == [][C39_BeginStep]_vars

\* C39 witness: the frame (1, 1) held the content line "P3" when
\* "FRAME_BEGIN seq=1" was fed last: the frame is written and no frame is
\* open.
C39_Witness ==
    /\ last = TagLine("FRAME_BEGIN", <<Tok("seq", "1")>>)
    /\ before.key = Some(FrameKey("1", 1))
    /\ before.lines = <<"P3">>
    /\ current_key = None
    /\ current_lines = <<>>
    /\ frames_dir = ("surface-1-seq-1.ppm" :> "P3\n")

\* The sequence number a line carries, 0 when it carries none.
CarriedSeq(kv) == IF "seq" \in DOMAIN kv THEN ParseInt(kv["seq"]) ELSE 0

\* The step just taken fed a FRAME_END that omits id or seq (or both).
FedEndWithOmission ==
    /\ last'.tag = "FRAME_END"
    /\ \/ Falsy(Get(ParseKvTail(last'.toks), "id"))
       \/ "seq" \notin DOMAIN ParseKvTail(last'.toks)

\* C40: a FRAME_BEGIN with id and without seq opens the frame (id, 0); a
\* FRAME_END that omits id or seq closes the open frame (flushing it under
\* the non-partial policy) exactly when a frame is open, the id it
\* carries, if any, is the frame's surface, and the seq it carries, 0 if
\* none, is the frame's seq; otherwise it changes nothing.
C40_OmissionStep ==
    LET kv == ParseKvTail(last'.toks)
        sid == Get(kv, "id")
    IN  /\ (last'.tag = "FRAME_BEGIN" /\ ~Falsy(sid) /\ "seq" \notin DOMAIN kv)
           => /\ current_key' = Some(FrameKey(sid[1], 0))
              /\ current_lines' = <<>>
        /\ FedEndWithOmission
           => IF /\ current_key # None
                 /\ Falsy(sid) \/ sid = Some(current_key[1].surface_id)
                 /\ CarriedSeq(kv) = current_key[1].seq
              THEN /\ current_key' = None
                   /\ current_lines' = <<>>
                   /\ frames_dir' = FlushedNonPartial
              ELSE UNCHANGED bridge_vars

C40_OmittedIdAndSeq == [][C40_OmissionStep]_vars

\* C40 witness: "FRAME_BEGIN id=1" opened the frame (1, 0), it held the
\* content line "P3", and "FRAME_END" without id and seq, fed last, closed
\* and wrote it.
C40_Witness ==
    /\ last = TagLine("FRAME_END", <<>>)
    /\ before.key = Some(FrameKey("1", 0))
    /\ before.lines = <<"P3">>
    /\ current_key = None
    /\ frames_dir = ("surface-1-seq-0.ppm" :> "P3\n")

\* The other side: "FRAME_END" without id and seq was fed last while the
\* frame (1, 1) was open; the frame is still open.
C40_StillOpen ==
    /\ last = TagLine("FRAME_END", <<>>)
    /\ before.key = Some(FrameKey("1", 1))
    /\ before.lines = <<"P3">>
    /\ current_key = Some(FrameKey("1", 1))
    /\ current_lines = <<"P3">>

=============================================================================
